---- MODULE Spec2Model ----
(***************************************************************************)
(* The tool-call approval workflow of the desktop application's            *)
(* ToolService (backend/services/tool/index.ts): the pending-approval      *)
(* registry, the session rule table, the timeout timers, the approval      *)
(* broadcasts and the wrapped tool executions that wait on them.           *)
(*                                                                         *)
(* Strings that the code inspects (tool ids) are sequences of characters.  *)
(* One step of the model is one run-to-completion turn of the event loop:  *)
(* a handler together with the promise continuations it makes runnable.    *)
(* The two reads of the classification store (ToolModel.getById) are       *)
(* suspension points at which any other turn may be taken; the store is an *)
(* external collaborator, so what a read finds is an input of the step.    *)
(***************************************************************************)
EXTENDS Integers, Sequences, FiniteSets, Bags, TLC

\* ------------------------------------------------------------------ bounds
MaxCalls == 2

\* Longest server id and tool name given to constructToolId.
MaxLen == 3

\* --------------------------------------------------------------- constants
ARCHESTRA_MCP_SERVER_ID == <<"a", "r", "c", "h", "e", "s", "t", "r", "a">>

TOOL_ID_SERVER_TOOL_NAME_SEPARATOR == <<"_", "_">>

constructToolId(serverId, toolName) ==
    serverId \o TOOL_ID_SERVER_TOOL_NAME_SEPARATOR \o toolName

ARCHESTRA_MCP_PREFIX == ARCHESTRA_MCP_SERVER_ID \o TOOL_ID_SERVER_TOOL_NAME_SEPARATOR

\* String.prototype.startsWith
startsWith(str, prefix) ==
    /\ Len(str) >= Len(prefix)
    /\ SubSeq(str, 1, Len(prefix)) = prefix

Max(S) == CHOOSE x \in S : \A y \in S : y <= x

Min(S) == CHOOSE x \in S : \A y \in S : x <= y

\* indexOf in place of lastIndexOf: the first occurrence.
lastIndexOf_First(str, search) ==
    LET hits == {i \in 0 .. (Len(str) - Len(search)) :
                    SubSeq(str, i + 1, i + Len(search)) = search}
    IN  IF hits = {} THEN -1 ELSE Min(hits)

\* String.prototype.lastIndexOf: the 0-based index of the last occurrence
\* of search in str, or -1.
lastIndexOf(str, search) ==
    LET hits == {i \in 0 .. (Len(str) - Len(search)) :
                    SubSeq(str, i + 1, i + Len(search)) = search}
    IN  IF hits = {} THEN -1 ELSE Max(hits)

\* String.prototype.substring(start, end): 0-based, end exclusive, both
\* clamped to 0 .. length and swapped when start > end.
substring(str, start, end) ==
    LET a == Min({Max({start, 0}), Len(str)})
        b == Min({Max({end, 0}), Len(str)})
    IN  SubSeq(str, Min({a, b}) + 1, Max({a, b}))

deconstructToolId(toolId) ==
    LET separatorIndex == lastIndexOf(toolId, TOOL_ID_SERVER_TOOL_NAME_SEPARATOR)
        toolName == IF separatorIndex # -1
                    THEN substring(toolId,
                                   separatorIndex + Len(TOOL_ID_SERVER_TOOL_NAME_SEPARATOR),
                                   Len(toolId))
                    ELSE toolId
    IN  [serverName |-> substring(toolId, 0, separatorIndex), toolName |-> toolName]

\* ------------------------------------------------------------- input sets
\* Characters of server ids and tool names: the separator's and another.
Chars == {"_", "a"}

\* Server ids and tool names of up to MaxLen characters.
Names == UNION {[1 .. n -> Chars] : n \in 0 .. MaxLen}

ArchestraTool == constructToolId(ARCHESTRA_MCP_SERVER_ID, <<"m">>)

WriteFileTool == constructToolId(<<"f", "s">>, <<"w">>)

PushTool == constructToolId(<<"g", "h">>, <<"p">>)

Tools == {ArchestraTool, WriteFileTool, PushTool}

\* A tool of another server whose id begins with the first-party prefix.
ForeignTool ==
    constructToolId(constructToolId(ARCHESTRA_MCP_SERVER_ID, <<"x">>), <<"w">>)

Sessions == {"s1", "s2"}

Calls == 1 .. MaxCalls

RequestIds == 1 .. MaxCalls

\* Argument objects of a tool call: none and one with a field.
EmptyArgs == "{}"

Args == {EmptyArgs, "{path}"}

Decisions == {"approve", "approve_always", "decline"}

RuleDecisions == {"always_approve", "always_decline"}

\* What ToolModel.getById(toolId) finds: no record, or a record whose
\* is_write column is true, false or null.
ToolRecords == {"no_record", "is_write_true", "is_write_false", "is_write_null"}

VARIABLES
    pendingApprovals,      \* Map<requestId, ApprovalRequest>
    sessionApprovalRules,  \* Map<sessionId, Map<toolId, decision>>
    timers,                \* requestIds whose setTimeout handle is active
    broadcasts,            \* bag of tool-approval-request messages sent
    calls,                 \* wrapped execute() invocations: position and the
                           \* locals of requestApproval while it is running
    promise,               \* state of the promise requestApproval returned
    settlements,           \* times resolve/reject of that promise was invoked
    executions,            \* times the underlying tool implementation ran
    outcome,               \* terminal state of each request that was resolved
    constructedToolId,     \* last constructToolId call: arguments and result
    deconstructedToolId,   \* what deconstructToolId returned for that result
    sandboxedTools,        \* McpServerSandboxManager: toolId -> tool
    archestraTools,        \* ArchestraMcpClient: toolId -> tool
    chatSelectedTools,     \* persisted tool selection of each chat
    wrappedTools,          \* what the last /api/llm/stream request offered
    streamRequests,        \* the stream requests waiting for their chat's selection
    discoveredTools,       \* SandboxedMcpServer.tools: ids of the tools it found
    cachedToolAnalysis,    \* SandboxedMcpServer.cachedToolAnalysis: id -> entry
    listedTools,           \* what availableToolsList returned last
    uiPendingApprovals,    \* UI store: Map<requestId, ToolApprovalRequest>
    uiSessionApprovalRules,\* UI store: Map<toolId, decision>
    currentApprovalRequest,\* UI store: request of the open dialog, 0 for null
    wsConnected,           \* websocketService.isConnected()
    delivered,             \* requestIds whose broadcast reached the UI
    responses,             \* tool-approval-response messages the UI sent
    availableTools,        \* UI store: ids of the tools of the catalog
    loadingAvailableTools, \* UI store: a fetch of the catalog is under way
    errorLoadingAvailableTools, \* UI store: a fetch of the catalog failed
    selectedToolIds,       \* UI store: Set<toolId>
    hasInitializedSelection, \* UI store: the first catalog load was seen
    hasHydrated,           \* UI store: persist has put the stored selection back
    fetchesInFlight,       \* UI store: fetchAvailableTools calls under way
    pendingSaves,          \* UI store: saves of the selection under way
    currentChatId,         \* archestraMcpContext.currentChatId, 0 for null
    activeStreams,         \* chatIds of the requests with their tools chosen and their stream not finished
    mcpReply,              \* what the last first-party tool call returned
    mcpCalls               \* the first-party tool calls waiting for the store

\* The approval workflow engine and the calls suspended on it.
engineVars == <<pendingApprovals, sessionApprovalRules, timers,
                broadcasts, calls, promise, settlements, executions, outcome>>

\* Calls of the tool-id helpers.
toolIdVars == <<constructedToolId, deconstructedToolId>>

\* The tool providers, the chats' selections and the stream route.
streamVars == <<sandboxedTools, archestraTools, chatSelectedTools, wrappedTools,
                streamRequests>>

\* One sandboxed server's tools, its analysis cache and its tool list.
sandboxVars == <<discoveredTools, cachedToolAnalysis, listedTools>>

\* The UI tools store, its websocket and the messages between the two.
uiVars == <<uiPendingApprovals, uiSessionApprovalRules, currentApprovalRequest,
            wsConnected, delivered, responses>>

\* The UI tools store's catalog and tool selection.
catalogVars == <<availableTools, loadingAvailableTools, errorLoadingAvailableTools,
                 selectedToolIds, hasInitializedSelection, hasHydrated,
                 fetchesInFlight, pendingSaves>>

\* The first-party server's chat context, and the streams that call it.
mcpVars == <<currentChatId, activeStreams, mcpReply, mcpCalls>>

\* Everything the engine's operations do not touch.
outsideEngine == <<toolIdVars, streamVars, sandboxVars, uiVars, catalogVars,
                   mcpVars>>

vars == <<engineVars, outsideEngine>>

\* ----------------------------------------------------------- pure helpers
\* needsApproval failing open: a tool without a record needs no approval.
needsApproval_FailOpen(toolId, record) ==
    IF startsWith(toolId, ARCHESTRA_MCP_PREFIX) THEN FALSE
    ELSE record = "is_write_true"

\* needsApproval testing is_write !== false instead of is_write === true.
needsApproval_NullIsWrite(toolId, record) ==
    IF startsWith(toolId, ARCHESTRA_MCP_PREFIX) THEN FALSE
    ELSE IF record = "no_record" THEN TRUE
    ELSE record # "is_write_false"

\* ToolService.needsApproval, given the record getById returned.
needsApproval(toolId, record) ==
    IF startsWith(toolId, ARCHESTRA_MCP_PREFIX) THEN FALSE
    ELSE IF record = "no_record" THEN TRUE
    ELSE record = "is_write_true"

createApprovalRuleKey(toolId) == toolId

\* checkSessionRule that never finds a rule.
checkSessionRule_Blind(rules, sessionId, toolId, args) == "null"

\* checkSessionRule that applies a rule only to calls without arguments.
checkSessionRule_ArgsSensitive(rules, sessionId, toolId, args) ==
    IF args # EmptyArgs \/ sessionId \notin DOMAIN rules THEN "null"
    ELSE IF createApprovalRuleKey(toolId) \in DOMAIN rules[sessionId]
         THEN rules[sessionId][createApprovalRuleKey(toolId)]
         ELSE "null"

\* ToolService.checkSessionRule: the rule or "null".
checkSessionRule(rules, sessionId, toolId, args) ==
    IF sessionId \notin DOMAIN rules THEN "null"
    ELSE IF createApprovalRuleKey(toolId) \in DOMAIN rules[sessionId]
         THEN rules[sessionId][createApprovalRuleKey(toolId)]
         ELSE "null"

\* Map.set on a function with a partial domain.
MapSet(m, k, v) == [x \in DOMAIN m \cup {k} |-> IF x = k THEN v ELSE m[x]]

\* A delete that leaves the entry in the map.
MapDelete_Noop(m, k) == m

\* Map.delete
MapDelete(m, k) == [x \in DOMAIN m \ {k} |-> m[x]]

EmptyMap == [x \in {} |-> "null"]

\* addSessionRule that records nothing.
addSessionRule_Dropped(rules, sessionId, toolId, args, decision) == rules

\* addSessionRule that starts the session's map afresh on every call.
addSessionRule_ResetsSession(rules, sessionId, toolId, args, decision) ==
    MapSet(rules, sessionId, MapSet(EmptyMap, createApprovalRuleKey(toolId), decision))

\* ToolService.addSessionRule: the rule table afterwards.
addSessionRule(rules, sessionId, toolId, args, decision) ==
    LET withSession == IF sessionId \in DOMAIN rules THEN rules
                       ELSE MapSet(rules, sessionId, EmptyMap)
    IN  MapSet(withSession, sessionId,
               MapSet(withSession[sessionId], createApprovalRuleKey(toolId), decision))

\* A wrapper that runs the tool whatever requestApproval resolved with.
wrapToolWithApproval_RunsDeclined(settled) ==
    IF settled = "true" \/ settled = "false" THEN "executed" ELSE "failed"

\* The continuation of the wrapper's await: where execute() ends for a
\* settled approval promise.
wrapToolWithApproval(settled) ==
    IF settled = "true" THEN "executed"
    ELSE IF settled = "false" THEN "declined"
    ELSE "failed"

\* A promise settles once; later resolve/reject calls leave it as it is.
SettlePromise(p, value) == IF p = "pending" THEN value ELSE p

\* The call whose requestApproval generated this requestId (the closure
\* over resolve and reject that the request and its timer hold).
CallOf(requestId) == CHOOSE c \in Calls : calls[c].requestId = requestId

\* resolve(value) or reject(value) invoked for every call in cs, followed
\* by the wrapper continuations this makes runnable.
Settle(cs, value) ==
    /\ promise' = [c \in Calls |->
                     IF c \in cs THEN SettlePromise(promise[c], value) ELSE promise[c]]
    /\ settlements' = [c \in Calls |->
                     IF c \in cs THEN settlements[c] + 1 ELSE settlements[c]]
    /\ calls' = [c \in Calls |->
                     IF c \in cs /\ promise[c] = "pending"
                     THEN [calls[c] EXCEPT !.pc = wrapToolWithApproval(value),
                                           !.record = "unread"]
                     ELSE calls[c]]
    /\ executions' = [c \in Calls |->
                     IF c \in cs /\ promise[c] = "pending"
                          /\ wrapToolWithApproval(value) = "executed"
                     THEN executions[c] + 1 ELSE executions[c]]

\* requestApproval returns `value` without suspending on a request.
Return(c, value) ==
    /\ promise' = [promise EXCEPT ![c] = value]
    /\ calls' = [calls EXCEPT ![c].pc = wrapToolWithApproval(value)]
    /\ executions' = [executions EXCEPT ![c] =
                        IF wrapToolWithApproval(value) = "executed" THEN @ + 1 ELSE @]
    /\ UNCHANGED settlements

\* The fields of a tool-approval-request payload that identify the request
\* (the payload's other fields are copies of the request's).
Payload(request) ==
    [requestId |-> request.requestId, toolId |-> request.toolId,
     sessionId |-> request.sessionId]

\* A broadcast that is sent twice.
Broadcast_Twice(sent, request) ==
    sent (+) SetToBag({Payload(request)}) (+) SetToBag({Payload(request)})

\* WebSocketService.broadcast of a tool-approval-request payload: the bag
\* of messages sent so far gains one copy of it.
Broadcast(sent, request) == sent (+) SetToBag({Payload(request)})

\* crypto.randomUUID: an id no other call draws. Each call draws at most
\* one, so the id drawn by call c is written c.
randomUUID(c) == c

\* A handler that clears every timer.
ClearTimeout_All(active, requestId) == {}

\* A handler that forgets to clear the timer.
ClearTimeout_Noop(active, requestId) == active

\* clearTimeout
ClearTimeout(active, requestId) == active \ {requestId}

\* A handler that rejects the caller of a declined request.
ResponseValue_DeclineRejects(decision) ==
    IF decision = "approve" \/ decision = "approve_always" THEN "true"
    ELSE "rejected_declined"

\* The value handleApprovalResponse resolves the promise with.
ResponseValue(decision) ==
    IF decision = "approve" \/ decision = "approve_always" THEN "true" ELSE "false"

\* clearSessionRules that clears the whole table.
clearSessionRules_AllSessions(rules, sessionId) ==
    IF sessionId \in DOMAIN rules THEN EmptyMap ELSE rules

\* The rule table after ToolService.clearSessionRules.
clearSessionRules(rules, sessionId) ==
    IF sessionId \in DOMAIN rules THEN MapDelete(rules, sessionId) ELSE rules

\* clearPendingApprovals without the session filter.
SessionRequests_All(pending, sessionId) == DOMAIN pending

\* The tool-approval-response the UI store's approveRequest sends for a
\* request it shows.
approveRequest(request, alwaysApprove) ==
    [requestId |-> request.requestId,
     decision |-> IF alwaysApprove THEN "approve_always" ELSE "approve",
     sessionId |-> request.sessionId]

\* The tool-approval-response the UI store's declineRequest sends: the
\* decline_always rule is kept in the UI store only.
declineRequest(request, alwaysDecline) ==
    [requestId |-> request.requestId,
     decision |-> "decline",
     sessionId |-> request.sessionId]

\* The requests clearPendingApprovals collects for a session.
SessionRequests(pending, sessionId) ==
    {r \in DOMAIN pending : pending[r].sessionId = sessionId}

\* ------------------------------------------------ aggregation and streams
ChatIds == {1}

\* The chats of the persisted store: a second chat next to the one the
\* stream route's tool selection is followed for.
StoredChatIds == ChatIds \cup {2}

\* An optional array of tool ids: null/undefined, or the ids of an array.
Unset == [given |-> FALSE, ids |-> {}]

Array(ids) == [given |-> TRUE, ids |-> ids]

OptionalIds == {Unset} \cup {Array(ids) : ids \in SUBSET Tools}

\* A tool of a provider; execute is "none" for a tool without an execute
\* function, "original" for the provider's own, "gated" once wrapped.
Tool(provider, execute) == [provider |-> provider, execute |-> execute]

\* getToolsById of a provider: the entries of the requested ids it holds.
ProviderGetToolsById(tools, toolIds) ==
    [id \in DOMAIN tools \cap toolIds |-> tools[id]]

\* ToolService.getAllTools: the sandboxed servers' tools, then the
\* first-party tools assigned over them.
getAllTools(sandboxed, archestra) ==
    [id \in DOMAIN sandboxed \cup DOMAIN archestra |->
        IF id \in DOMAIN archestra THEN archestra[id] ELSE sandboxed[id]]

\* getToolsById that asks the first-party provider for every id.
getToolsById_AsksAgain(sandboxed, archestra, toolIds) ==
    LET selected == ProviderGetToolsById(sandboxed, toolIds)
        found == ProviderGetToolsById(archestra, toolIds)
    IN  [id \in DOMAIN selected \cup DOMAIN found |->
            IF id \in DOMAIN found THEN found[id] ELSE selected[id]]

\* ToolService.getToolsById
getToolsById(sandboxed, archestra, toolIds) ==
    LET selected == ProviderGetToolsById(sandboxed, toolIds)
        remainingIds == {id \in toolIds : id \notin DOMAIN selected}
        found == IF remainingIds # {}
                 THEN ProviderGetToolsById(archestra, remainingIds)
                 ELSE EmptyMap
    IN  [id \in DOMAIN selected \cup DOMAIN found |->
            IF id \in DOMAIN found THEN found[id] ELSE selected[id]]

\* A route that takes an empty selection for no selection.
streamTools_EmptyMeansAll(chatId, selection, requestedTools, sandboxed, archestra) ==
    IF chatId # 0
    THEN IF ~selection.given \/ selection.ids = {}
         THEN getAllTools(sandboxed, archestra)
         ELSE getToolsById(sandboxed, archestra, selection.ids)
    ELSE IF requestedTools.given /\ requestedTools.ids # {}
         THEN getToolsById(sandboxed, archestra, requestedTools.ids)
         ELSE getAllTools(sandboxed, archestra)

\* The tools the stream route picks: by the chat's selection when the
\* request names a chat, else by the request's requestedTools.
streamTools(chatId, selection, requestedTools, sandboxed, archestra) ==
    IF chatId # 0
    THEN IF ~selection.given THEN getAllTools(sandboxed, archestra)
         ELSE IF selection.ids # {}
              THEN getToolsById(sandboxed, archestra, selection.ids)
              ELSE EmptyMap
    ELSE IF requestedTools.given /\ requestedTools.ids # {}
         THEN getToolsById(sandboxed, archestra, requestedTools.ids)
         ELSE getAllTools(sandboxed, archestra)

\* ToolService.wrapToolWithApproval applied to a tool: a tool without an
\* execute function is returned as it is.
WrappedTool(tool) ==
    IF tool.execute = "none" THEN tool ELSE [tool EXCEPT !.execute = "gated"]

\* ------------------------------------------------- a sandboxed server
\* Tool ids of one server: one whose server id has no separator and one
\* whose server id has one.
ServerToolIds ==
    {constructToolId(<<"t">>, <<"n">>),
     constructToolId(constructToolId(<<"m">>, <<"f">>), <<"r">>)}

\* The bare names of those tools.
ServerToolNames == {<<"n">>, <<"r">>}

\* Verdicts of an analysis: read, write, neither.
Verdicts == {<<"true", "false">>, <<"false", "true">>, <<"null", "null">>}

AnalyzedAt == "2025-09-16T21:00:00.000Z"

\* Cache entries: not analysed yet, or analysed with any verdict.
AnalysisEntries ==
    {[is_read |-> "null", is_write |-> "null", analyzed_at |-> "null"]}
      \cup {[is_read |-> v[1], is_write |-> v[2], analyzed_at |-> AnalyzedAt] :
               v \in Verdicts}

\* Keys of the analysis cache: a tool's id, or its bare tool name.
CacheKeys == ServerToolIds \cup ServerToolNames

\* What a cache key and a tool id are matched by: the tool name that
\* follows the last separator.
cacheKey(toolId) == deconstructToolId(toolId).toolName

\* The cache entry of a tool, or an entry of nulls.
findCachedAnalysis(cache, toolId) ==
    LET keys == {k \in DOMAIN cache : cacheKey(k) = cacheKey(toolId)}
    IN  IF keys = {}
        THEN [is_read |-> "null", is_write |-> "null", analyzed_at |-> "null"]
        ELSE cache[CHOOSE k \in keys : TRUE]

\* SandboxedMcpServer.availableToolsList: one descriptor for each tool.
availableToolsList(tools, cache) ==
    {LET cachedAnalysis == findCachedAnalysis(cache, id)
     IN  [id |-> id,
          name |-> deconstructToolId(id).toolName,
          analysis |-> [status |-> IF cachedAnalysis.analyzed_at # "null"
                                   THEN "completed"
                                   ELSE "awaiting_ollama_model",
                        is_read |-> cachedAnalysis.is_read,
                        is_write |-> cachedAnalysis.is_write]] : id \in tools}

\* ------------------------------------------- the UI store's selection
\* Auto-selection whenever nothing is selected.
shouldAutoSelectAll_WheneverEmpty(initialized, currentSelection) ==
    currentSelection = {}

\* shouldAutoSelectAll of fetchAvailableTools and setAvailableTools
shouldAutoSelectAll(initialized, currentSelection) ==
    ~initialized /\ currentSelection = {}

\* The selectedToolIds those two store with a catalog of these tool ids.
reconciledSelection(initialized, currentSelection, toolIds) ==
    IF shouldAutoSelectAll(initialized, currentSelection)
    THEN toolIds
    ELSE {id \in currentSelection : id \in toolIds}

\* The tools of the UI's catalog.
CatalogTools == {WriteFileTool, PushTool}

\* What 'tools-selection-storage' holds when the store is created:
\* nothing, or the selection and the flag partialize wrote.
NothingStored == [stored |-> FALSE, selectedToolIds |-> {},
                  hasInitializedSelection |-> FALSE]

StoredSelections ==
    {NothingStored} \cup
    [stored : {TRUE}, selectedToolIds : SUBSET CatalogTools,
     hasInitializedSelection : BOOLEAN]

\* A save of the selection: the route of the backend it calls for a chat,
\* with the tool ids of its body; after deselect-all, the ids setOnlyTools
\* selects next.
Save(route, chatId, toolIds, next) ==
    [route |-> route, chatId |-> chatId, toolIds |-> toolIds, next |-> next]

\* Most fetches, and most saves, under way at a time.
MaxFetches == 2

MaxSaves == 1

\* ------------------------------------------- the first-party tool server
\* currentChatId of a context that holds no chat (null); a stream request
\* without a chatId is written with the same number.
NoChat == 0

\* ToolService.getAllAvailableTools, by id: the sandboxed servers'
\* descriptors, and the first-party client's while it is connected (it
\* holds no tools otherwise).
getAllAvailableTools(sandboxed, archestra) ==
    DOMAIN sandboxed \cup DOMAIN archestra

\* currentEnabledSet / selectedSet of the handlers: null means all.
currentEnabledSet(currentSelectedTools, availableToolIds) ==
    IF ~currentSelectedTools.given
    THEN availableToolIds
    ELSE currentSelectedTools.ids

\* A validation that only looks for ids that do not exist.
enableErrors_OnlyMissing(toolIds, availableToolIds, enabled) ==
    {toolId \in toolIds : toolId \notin availableToolIds}

\* enable_tools: the requested ids an error line is pushed for.
enableErrors(toolIds, availableToolIds, enabled) ==
    {toolId \in toolIds : toolId \notin availableToolIds \/ toolId \in enabled}

\* disable_tools: the requested ids an error line is pushed for.
disableErrors(toolIds, availableToolIds, enabled) ==
    {toolId \in toolIds : toolId \notin availableToolIds \/ toolId \notin enabled}

\* The store's addSelectedTools: the ids join the chat's selection.
addSelectedTools(selection, toolIds) ==
    IF selection.given THEN Array(selection.ids \cup toolIds) ELSE selection

\* The store's removeSelectedTools: the ids leave the chat's selection, a
\* null selection being the enabled ids the handler saw.
removeSelectedTools(selection, enabled, toolIds) ==
    Array((IF selection.given THEN selection.ids ELSE enabled) \ toolIds)

\* What a first-party tool returns: the tool, the chat whose selection it
\* read, the beginning of its text, the ids it lists as selected.
Reply(tool, chatId, text, selected) ==
    [tool |-> tool, chatId |-> chatId, text |-> text, selected |-> selected]

NoReply == Reply("none", NoChat, "none", {})

NoActiveChat == "Error: No active chat context found"

\* What a handler decides once the store has answered: the beginning of
\* its text, and the ids it goes on with (those it adds to or removes from
\* the selection, or lists as selected).
Outcome(text, ids) == [text |-> text, ids |-> ids]

\* The list_available_tools handler (without mcp_server) with the
\* context's chat and the selection the store answered.
listAvailableTools(chatId, selection, allTools) ==
    IF chatId = NoChat THEN Outcome(NoActiveChat, {})
    ELSE Outcome("Available MCP Servers",
                 allTools \cap currentEnabledSet(selection, allTools))

\* The enable_tools handler with the context's chat and the selection
\* the store answered, up to its call of addSelectedTools.
enableTools(chatId, selection, toolIds, availableToolIds) ==
    LET enabled == currentEnabledSet(selection, availableToolIds)
        errors == enableErrors(toolIds, availableToolIds, enabled)
        validToolsToEnable == toolIds \ errors
    IN  IF chatId = NoChat THEN Outcome(NoActiveChat, {})
        ELSE IF errors # {} THEN Outcome("Error enabling tools", {})
        ELSE IF validToolsToEnable = {} THEN Outcome("No tools to enable", {})
        ELSE Outcome("Successfully enabled", validToolsToEnable)

\* The disable_tools handler, up to its call of removeSelectedTools.
disableTools(chatId, selection, toolIds, availableToolIds) ==
    LET enabled == currentEnabledSet(selection, availableToolIds)
        errors == disableErrors(toolIds, availableToolIds, enabled)
        validToolsToDisable == toolIds \ errors
    IN  IF chatId = NoChat THEN Outcome(NoActiveChat, {})
        ELSE IF errors # {} THEN Outcome("Error disabling tools", {})
        ELSE IF validToolsToDisable = {} THEN Outcome("No tools to disable", {})
        ELSE Outcome("Successfully disabled", validToolsToDisable)

\* What the catch block of a handler returns when a call of the store
\* throws: the beginning of its text, which the error's message follows.
CaughtText(tool) ==
    CASE tool = "list_available_tools" -> "Error listing tools: "
      [] tool = "enable_tools" -> "Error enabling tools: "
      [] tool = "disable_tools" -> "Error disabling tools: "

\* A handler suspended at its await of ChatModel.getSelectedTools: its
\* tool, the chat it took from the context, what it decides from the
\* store's answer and the tools it listed before the await, the call of
\* the store it awaits, and whether the store has carried out the write
\* it was called for.
McpCall(tool, chatId, handled) ==
    [tool |-> tool, chatId |-> chatId, text |-> handled.text,
     ids |-> handled.ids, awaits |-> "getSelectedTools", written |-> FALSE]

\* The call of the store a handler makes after its validation: enable_tools
\* and disable_tools with ids to write call addSelectedTools and
\* removeSelectedTools; every other outcome returns without one.
StoreCall(call) ==
    IF call.text = "Successfully enabled" THEN "addSelectedTools"
    ELSE IF call.text = "Successfully disabled" THEN "removeSelectedTools"
    ELSE "none"

\* Most handlers suspended at a time.
MaxHandlers == 2

\* A stream request of a chat suspended at its await of the store, with
\* the selection the store answers.
StreamRequest(chatId, selection) == [chatId |-> chatId, selection |-> selection]

\* A stream request without a chatId: it never asks the store.
NoChatRequest == StreamRequest(NoChat, Unset)

\* Most stream requests under way at a time, suspended or streaming.
MaxStreams == 2

\* No call made yet, nothing returned yet.
NoResult == [returned |-> FALSE]

\* -------------------------------------------------------------------- Init
IdleCall ==
    [pc |-> "idle", toolId |-> <<>>, sessionId |-> "", args |-> EmptyArgs,
     record |-> "unread", requestId |-> 0]

Init ==
    /\ pendingApprovals = EmptyMap
    /\ sessionApprovalRules = EmptyMap
    /\ timers = {}
    /\ broadcasts = EmptyBag
    /\ calls = [c \in Calls |-> IdleCall]
    /\ promise = [c \in Calls |-> "none"]
    /\ settlements = [c \in Calls |-> 0]
    /\ executions = [c \in Calls |-> 0]
    /\ outcome = EmptyMap
    /\ constructedToolId = NoResult
    /\ deconstructedToolId = NoResult
    /\ sandboxedTools = EmptyMap
    /\ archestraTools = EmptyMap
    /\ chatSelectedTools = [chatId \in StoredChatIds |-> Unset]
    /\ wrappedTools = EmptyMap
    /\ streamRequests = EmptyBag
    /\ discoveredTools = {}
    /\ cachedToolAnalysis = EmptyMap
    /\ listedTools = {}
    /\ uiPendingApprovals = EmptyMap
    /\ uiSessionApprovalRules = EmptyMap
    /\ currentApprovalRequest = 0
    /\ wsConnected = TRUE
    /\ delivered = {}
    /\ responses = {}
    /\ availableTools = {}
    /\ loadingAvailableTools = TRUE
    /\ errorLoadingAvailableTools = FALSE
    /\ selectedToolIds = {}
    /\ hasInitializedSelection = FALSE
    /\ hasHydrated = FALSE
    /\ fetchesInFlight = 0
    /\ pendingSaves = {}
    /\ currentChatId = NoChat
    /\ activeStreams = EmptyBag
    /\ mcpReply = NoReply
    /\ mcpCalls = EmptyBag

\* ----------------------------------------------------------------- actions
\* The LLM loop invokes the wrapped execute() of a tool: requestApproval is
\* entered and suspends in needsApproval's read of the classification store.
Invoke(c, toolId, sessionId, args) ==
    /\ calls[c].pc = "idle"
    /\ IF c = 1 THEN TRUE ELSE calls[c - 1].pc # "idle"
    /\ calls' = [calls EXCEPT ![c] =
                   [pc |-> "needsApproval", toolId |-> toolId, sessionId |-> sessionId,
                    args |-> args, record |-> "unread", requestId |-> 0]]
    /\ promise' = [promise EXCEPT ![c] = "pending"]
    /\ UNCHANGED <<pendingApprovals, sessionApprovalRules, timers,
                   broadcasts, settlements, executions, outcome>>
    /\ UNCHANGED outsideEngine

\* requestApproval resumes with needsApproval's answer, evaluates the
\* session rules and, when a request is needed, draws its requestId and
\* suspends in the second read of the classification store.
CheckApproval(c, record) ==
    LET toolId == calls[c].toolId
        sessionId == calls[c].sessionId
        requiresApproval == needsApproval(toolId, record)
        sessionRule == checkSessionRule(sessionApprovalRules, sessionId, toolId,
                                        calls[c].args)
    IN  /\ calls[c].pc = "needsApproval"
        /\ IF ~requiresApproval \/ sessionRule = "always_approve"
           THEN Return(c, "true")
           ELSE IF sessionRule = "always_decline"
           THEN Return(c, "false")
           ELSE /\ calls' = [calls EXCEPT ![c].pc = "getTool",
                                          ![c].record = record,
                                          ![c].requestId = randomUUID(c)]
                /\ UNCHANGED <<promise, settlements, executions>>
        /\ UNCHANGED <<pendingApprovals, sessionApprovalRules, timers,
                       broadcasts, outcome>>
        /\ UNCHANGED outsideEngine

\* The executor of the promise requestApproval returns: start the timer,
\* store the request, broadcast it.
RegisterRequest(c, record) ==
    LET toolId == calls[c].toolId
        requestId == calls[c].requestId
        isWrite == record = "is_write_true"
        request == [requestId |-> requestId, toolId |-> toolId,
                    sessionId |-> calls[c].sessionId, args |-> calls[c].args,
                    isWrite |-> isWrite]
    IN  /\ calls[c].pc = "getTool"
        /\ timers' = timers \cup {requestId}
        /\ pendingApprovals' = MapSet(pendingApprovals, requestId, request)
        /\ broadcasts' = Broadcast(broadcasts, request)
        /\ calls' = [calls EXCEPT ![c].pc = "waiting"]
        /\ UNCHANGED <<sessionApprovalRules, promise,
                       settlements, executions, outcome>>
        /\ UNCHANGED outsideEngine

\* A timer callback that rejects but leaves the request in the registry.
TimeoutFire_KeepsRequest(requestId) ==
    /\ requestId \in timers
    /\ timers' = timers \ {requestId}
    /\ Settle({CallOf(requestId)}, "timeout")
    /\ outcome' = MapSet(outcome, requestId, "timeout")
    /\ UNCHANGED <<pendingApprovals, sessionApprovalRules, broadcasts>>
    /\ UNCHANGED outsideEngine

\* The timer callback of a request.
TimeoutFire(requestId) ==
    /\ requestId \in timers
    /\ timers' = timers \ {requestId}
    /\ pendingApprovals' = MapDelete(pendingApprovals, requestId)
    /\ Settle({CallOf(requestId)}, "timeout")
    /\ outcome' = MapSet(outcome, requestId, "timeout")
    /\ UNCHANGED <<sessionApprovalRules, broadcasts>>
    /\ UNCHANGED outsideEngine

\* ToolService.handleApprovalResponse
HandleApprovalResponse(requestId, decision, sessionId) ==
    IF requestId \notin DOMAIN pendingApprovals
    THEN UNCHANGED vars
    ELSE LET request == pendingApprovals[requestId]
         IN  /\ timers' = ClearTimeout(timers, requestId)
             /\ pendingApprovals' = MapDelete(pendingApprovals, requestId)
             /\ sessionApprovalRules' =
                    IF decision = "approve_always"
                    THEN addSessionRule(sessionApprovalRules, sessionId,
                                        request.toolId, request.args, "always_approve")
                    ELSE sessionApprovalRules
             /\ Settle({CallOf(requestId)}, ResponseValue(decision))
             /\ outcome' = MapSet(outcome, requestId, decision)
             /\ UNCHANGED broadcasts
             /\ UNCHANGED outsideEngine

\* ToolService.addSessionRule, called on the service directly.
AddSessionRule(sessionId, toolId, args, decision) ==
    /\ sessionApprovalRules' =
           addSessionRule(sessionApprovalRules, sessionId, toolId, args, decision)
    /\ UNCHANGED <<pendingApprovals, timers, broadcasts,
                   calls, promise, settlements, executions, outcome>>
    /\ UNCHANGED outsideEngine

\* ToolService.clearSessionRules
ClearSessionRules(sessionId) ==
    /\ sessionApprovalRules' = clearSessionRules(sessionApprovalRules, sessionId)
    /\ UNCHANGED <<pendingApprovals, timers, broadcasts,
                   calls, promise, settlements, executions, outcome>>
    /\ UNCHANGED outsideEngine

\* ToolService.clearPendingApprovals
ClearPendingApprovals(sessionId) ==
    LET toDelete == SessionRequests(pendingApprovals, sessionId)
    IN  /\ timers' = timers \ toDelete
        /\ Settle({CallOf(r) : r \in toDelete}, "session_ended")
        /\ pendingApprovals' = [r \in DOMAIN pendingApprovals \ toDelete |->
                                  pendingApprovals[r]]
        /\ outcome' = [r \in DOMAIN outcome \cup toDelete |->
                         IF r \in toDelete THEN "session_ended" ELSE outcome[r]]
        /\ UNCHANGED <<sessionApprovalRules, broadcasts>>
        /\ UNCHANGED outsideEngine

\* ToolService.clearAll
ClearAll ==
    /\ timers' = timers \ DOMAIN pendingApprovals
    /\ pendingApprovals' = EmptyMap
    /\ sessionApprovalRules' = EmptyMap
    /\ UNCHANGED <<broadcasts, calls, promise, settlements,
                   executions, outcome>>
    /\ UNCHANGED outsideEngine

Next ==
    \/ \E c \in Calls, t \in Tools, s \in Sessions : Invoke(c, t, s, EmptyArgs)
    \/ \E c \in Calls, rec \in ToolRecords : CheckApproval(c, rec)
    \/ \E c \in Calls, rec \in ToolRecords : RegisterRequest(c, rec)
    \/ \E r \in RequestIds : TimeoutFire(r)
    \/ \E r \in RequestIds, d \in Decisions, s \in Sessions :
          HandleApprovalResponse(r, d, s)
    \/ \E s \in Sessions : ClearSessionRules(s)
    \/ \E s \in Sessions : ClearPendingApprovals(s)
    \/ ClearAll

Spec == Init /\ [][Next]_vars

\* The engine as the application runs it: clearAll, which exists for
\* tests, is not called.
NextServing ==
    \/ \E c \in Calls, t \in Tools, s \in Sessions : Invoke(c, t, s, EmptyArgs)
    \/ \E c \in Calls, rec \in ToolRecords : CheckApproval(c, rec)
    \/ \E c \in Calls, rec \in ToolRecords : RegisterRequest(c, rec)
    \/ \E r \in RequestIds : TimeoutFire(r)
    \/ \E r \in RequestIds, d \in Decisions, s \in Sessions :
          HandleApprovalResponse(r, d, s)
    \/ \E s \in Sessions : ClearSessionRules(s)
    \/ \E s \in Sessions : ClearPendingApprovals(s)

ServingSpec == Init /\ [][NextServing]_vars

\* The engine driven through its whole public interface: addSessionRule is
\* also called directly, which is the only way an always_decline rule gets
\* into the table.
NextApi ==
    \/ Next
    \/ \E s \in Sessions, t \in Tools :
          AddSessionRule(s, t, EmptyArgs, "always_decline")

ApiSpec == Init /\ [][NextApi]_vars

\* The engine called with argument objects that differ from call to call.
NextArgs ==
    \/ Next
    \/ \E c \in Calls, t \in Tools, s \in Sessions, a \in Args \ {EmptyArgs} :
          Invoke(c, t, s, a)

ArgsSpec == Init /\ [][NextArgs]_vars

\* The engine called for the tools of a server whose id begins with the
\* first-party server's id and the separator.
NextForeign ==
    \/ Next
    \/ \E c \in Calls, s \in Sessions : Invoke(c, ForeignTool, s, EmptyArgs)

ForeignSpec == Init /\ [][NextForeign]_vars

\* The session a stream's tools are wrapped with: sessionId || ''.
streamSessionId(sessionId) == IF sessionId = "undefined" THEN "" ELSE sessionId

\* The engine called by streams that were started with a sessionId and by
\* streams that were started without one; the UI answers a request with
\* the sessionId the request carries.
NextAnonymous ==
    \/ Next
    \/ \E c \in Calls, t \in Tools :
          Invoke(c, t, streamSessionId("undefined"), EmptyArgs)
    \/ \E r \in RequestIds, d \in Decisions :
          HandleApprovalResponse(r, d, streamSessionId("undefined"))
    \/ ClearSessionRules(streamSessionId("undefined"))
    \/ ClearPendingApprovals(streamSessionId("undefined"))

AnonymousSpec == Init /\ [][NextAnonymous]_vars

\* ------------------------------------------------- the tool-id helpers
\* constructToolId called with a server id and a tool name.
ConstructToolId(serverId, toolName) ==
    /\ constructedToolId' = [serverId |-> serverId, toolName |-> toolName,
                             toolId |-> constructToolId(serverId, toolName)]
    /\ deconstructedToolId' = NoResult
    /\ UNCHANGED <<engineVars, catalogVars, mcpVars, streamVars, sandboxVars, uiVars>>

\* deconstructToolId called with the id constructToolId returned.
DeconstructToolId ==
    /\ constructedToolId # NoResult
    /\ deconstructedToolId' = deconstructToolId(constructedToolId.toolId)
    /\ UNCHANGED <<engineVars, catalogVars, mcpVars, streamVars, sandboxVars, uiVars, constructedToolId>>

NextToolId ==
    \/ \E serverId \in Names, toolName \in Names : ConstructToolId(serverId, toolName)
    \/ DeconstructToolId

ToolIdSpec == Init /\ [][NextToolId]_vars

\* ------------------------------------------- providers, chats and streams
\* A sandboxed server reports a tool (again).
SandboxDiscovers(toolId, execute) ==
    /\ sandboxedTools' = MapSet(sandboxedTools, toolId, Tool("sandboxed", execute))
    /\ UNCHANGED <<engineVars, catalogVars, mcpVars, toolIdVars, sandboxVars, uiVars, archestraTools, chatSelectedTools,
                   wrappedTools, streamRequests>>

\* A sandboxed server is uninstalled or stops reporting a tool.
SandboxDrops(toolId) ==
    /\ toolId \in DOMAIN sandboxedTools
    /\ sandboxedTools' = MapDelete(sandboxedTools, toolId)
    /\ UNCHANGED <<engineVars, catalogVars, mcpVars, toolIdVars, sandboxVars, uiVars, archestraTools, chatSelectedTools,
                   wrappedTools, streamRequests>>

\* The first-party client connects and lists its tools, or disconnects.
ArchestraConnects(connected) ==
    /\ archestraTools' = IF connected
                         THEN MapSet(EmptyMap, ArchestraTool, Tool("archestra", "original"))
                         ELSE EmptyMap
    /\ UNCHANGED <<engineVars, catalogVars, mcpVars, toolIdVars, sandboxVars, uiVars, sandboxedTools, chatSelectedTools,
                   wrappedTools, streamRequests>>

\* The chat's persisted selection is replaced.
SetSelectedTools(chatId, selection) ==
    /\ chatSelectedTools' = [chatSelectedTools EXCEPT ![chatId] = selection]
    /\ UNCHANGED <<engineVars, catalogVars, mcpVars, toolIdVars, sandboxVars, uiVars, sandboxedTools, archestraTools,
                   wrappedTools, streamRequests>>

\* The stream requests under way: suspended at the store, or streaming.
StreamsUnderWay ==
    BagCardinality(streamRequests) + BagCardinality(activeStreams)

\* POST /api/llm/stream of a chat up to its await of Chat.getSelectedTools:
\* the context takes the request's chatId, and the store's answer is the
\* selection of this moment; the request's own tools are still empty.
StreamGetSelectedTools(chatId) ==
    /\ StreamsUnderWay < MaxStreams
    /\ currentChatId' = chatId
    /\ streamRequests' =
          streamRequests (+) SetToBag({StreamRequest(chatId, chatSelectedTools[chatId])})
    /\ wrappedTools' = EmptyMap
    /\ UNCHANGED <<engineVars, catalogVars, toolIdVars, sandboxVars, uiVars,
                   sandboxedTools, archestraTools, chatSelectedTools,
                   activeStreams, mcpReply, mcpCalls>>

\* POST /api/llm/stream from the choice of the tools to their wrapping,
\* after which the request goes on to its stream: a request of a chat
\* resumes with the selection the store answered, a request without a
\* chatId runs from its start and leaves the context as it is.
StreamLlmResponse(request, requestedTools) ==
    LET tools == streamTools(request.chatId, request.selection, requestedTools,
                             sandboxedTools, archestraTools)
    IN  /\ UNCHANGED <<chatSelectedTools, sandboxedTools, archestraTools,
                       currentChatId, mcpReply, mcpCalls,
                       engineVars, catalogVars, toolIdVars, sandboxVars, uiVars>>
        /\ IF request.chatId # NoChat
           THEN /\ BagIn(request, streamRequests)
                /\ streamRequests' = streamRequests (-) SetToBag({request})
           ELSE /\ request = NoChatRequest
                /\ StreamsUnderWay < MaxStreams
                /\ streamRequests' = streamRequests
        /\ activeStreams' = activeStreams (+) SetToBag({request.chatId})
        /\ wrappedTools' = [toolId \in DOMAIN tools |-> WrappedTool(tools[toolId])]

\* A request of the chat (NoChat: a request without a chatId) streams its
\* response to the end; the context is left as it is.
EndStream(chatId) ==
    /\ BagIn(chatId, activeStreams)
    /\ activeStreams' = activeStreams (-) SetToBag({chatId})
    /\ UNCHANGED <<engineVars, catalogVars, toolIdVars, streamVars, sandboxVars,
                   uiVars, currentChatId, mcpReply, mcpCalls>>

\* The selections a chat is given, and a request without a chatId asks
\* for: none (null), an empty one, and three of the ids.
StreamSelections ==
    {Unset, Array({}), Array({WriteFileTool}),
     Array({WriteFileTool, PushTool}), Array({ArchestraTool, PushTool})}

NextStream ==
    \/ \E t \in Tools : SandboxDiscovers(t, "original")
    \/ SandboxDiscovers(WriteFileTool, "none")
    \/ \E t \in Tools : SandboxDrops(t)
    \/ \E connected \in BOOLEAN : ArchestraConnects(connected)
    \/ \E chatId \in ChatIds, selection \in StreamSelections :
          SetSelectedTools(chatId, selection)
    \/ \E chatId \in ChatIds : StreamGetSelectedTools(chatId)
    \/ \E request \in BagToSet(streamRequests) \cup {NoChatRequest},
          requestedTools \in StreamSelections :
          StreamLlmResponse(request, requestedTools)
    \/ \E chatId \in ChatIds \cup {NoChat} : EndStream(chatId)

StreamSpec == Init /\ [][NextStream]_vars

\* ------------------------------------------------- a sandboxed server
\* The server's client lists a tool of the running container.
FetchTools(toolId) ==
    /\ toolId \notin discoveredTools
    /\ discoveredTools' = discoveredTools \cup {toolId}
    /\ UNCHANGED <<engineVars, catalogVars, mcpVars, toolIdVars, streamVars, uiVars, cachedToolAnalysis,
                   listedTools>>

\* The cache takes a tool's entry from the classification store, under
\* the tool's id or under its bare name, one key for each tool.
SetCachedAnalysis(key, entry) ==
    /\ \A k \in DOMAIN cachedToolAnalysis : cacheKey(k) = cacheKey(key) => k = key
    /\ cachedToolAnalysis' = MapSet(cachedToolAnalysis, key, entry)
    /\ UNCHANGED <<engineVars, catalogVars, mcpVars, toolIdVars, streamVars, uiVars, discoveredTools,
                   listedTools>>

\* availableToolsList is read.
GetAvailableToolsList ==
    /\ listedTools' = availableToolsList(discoveredTools, cachedToolAnalysis)
    /\ UNCHANGED <<engineVars, catalogVars, mcpVars, toolIdVars, streamVars, uiVars, discoveredTools,
                   cachedToolAnalysis>>

NextSandbox ==
    \/ \E t \in ServerToolIds : FetchTools(t)
    \/ \E key \in CacheKeys, entry \in AnalysisEntries :
          SetCachedAnalysis(key, entry)
    \/ GetAvailableToolsList

SandboxSpec == Init /\ [][NextSandbox]_vars

\* ------------------------------------------------------- the UI store
\* The websocket between the UI and the backend opens or closes.
WebsocketConnects(connected) ==
    /\ wsConnected' = connected
    /\ UNCHANGED <<engineVars, catalogVars, mcpVars, toolIdVars, streamVars, sandboxVars,
                   uiPendingApprovals, uiSessionApprovalRules,
                   currentApprovalRequest, delivered, responses>>

\* The subscriber of tool-approval-request receives a broadcast and calls
\* addPendingApproval, which opens the dialog for it.
AddPendingApproval(payload) ==
    /\ wsConnected
    /\ BagIn(payload, broadcasts)
    /\ payload.requestId \notin delivered
    /\ delivered' = delivered \cup {payload.requestId}
    /\ uiPendingApprovals' = MapSet(uiPendingApprovals, payload.requestId, payload)
    /\ currentApprovalRequest' = payload.requestId
    /\ UNCHANGED <<engineVars, catalogVars, mcpVars, toolIdVars, streamVars, sandboxVars,
                   uiSessionApprovalRules, wsConnected, responses>>

\* The store's removePendingApproval, called on its own.
RemovePendingApproval(requestId) ==
    /\ uiPendingApprovals' = MapDelete(uiPendingApprovals, requestId)
    /\ UNCHANGED <<engineVars, catalogVars, mcpVars, toolIdVars, streamVars, sandboxVars,
                   uiSessionApprovalRules, currentApprovalRequest, wsConnected,
                   delivered, responses>>

\* The store's openApprovalDialog, called on its own: the dialog shows
\* the request when the store holds it.
OpenApprovalDialog(requestId) ==
    /\ currentApprovalRequest' = IF requestId \in DOMAIN uiPendingApprovals
                                 THEN requestId
                                 ELSE currentApprovalRequest
    /\ UNCHANGED <<engineVars, catalogVars, mcpVars, toolIdVars, streamVars, sandboxVars,
                   uiPendingApprovals, uiSessionApprovalRules, wsConnected,
                   delivered, responses>>

\* The store's closeApprovalDialog, called on its own.
CloseApprovalDialog ==
    /\ currentApprovalRequest' = 0
    /\ UNCHANGED <<engineVars, catalogVars, mcpVars, toolIdVars, streamVars, sandboxVars,
                   uiPendingApprovals, uiSessionApprovalRules, wsConnected,
                   delivered, responses>>

\* The store's clearSessionRules
UiClearSessionRules ==
    /\ uiSessionApprovalRules' = EmptyMap
    /\ UNCHANGED <<engineVars, catalogVars, mcpVars, toolIdVars, streamVars, sandboxVars,
                   uiPendingApprovals, currentApprovalRequest, wsConnected,
                   delivered, responses>>

\* The store's approveRequest
ApproveRequest(requestId, alwaysApprove) ==
    /\ requestId \in DOMAIN uiPendingApprovals
    /\ LET request == uiPendingApprovals[requestId]
       IN  /\ uiSessionApprovalRules' =
                 IF alwaysApprove
                 THEN MapSet(uiSessionApprovalRules, request.toolId, "approve_always")
                 ELSE uiSessionApprovalRules
           /\ responses' = IF wsConnected
                           THEN responses \cup {approveRequest(request, alwaysApprove)}
                           ELSE responses
    /\ uiPendingApprovals' = MapDelete(uiPendingApprovals, requestId)
    /\ currentApprovalRequest' = 0
    /\ UNCHANGED <<engineVars, catalogVars, mcpVars, toolIdVars, streamVars, sandboxVars,
                   wsConnected, delivered>>

\* The store's declineRequest
DeclineRequest(requestId, alwaysDecline) ==
    /\ requestId \in DOMAIN uiPendingApprovals
    /\ LET request == uiPendingApprovals[requestId]
       IN  /\ uiSessionApprovalRules' =
                 IF alwaysDecline
                 THEN MapSet(uiSessionApprovalRules, request.toolId, "decline_always")
                 ELSE uiSessionApprovalRules
           /\ responses' = IF wsConnected
                           THEN responses \cup {declineRequest(request, alwaysDecline)}
                           ELSE responses
    /\ uiPendingApprovals' = MapDelete(uiPendingApprovals, requestId)
    /\ currentApprovalRequest' = 0
    /\ UNCHANGED <<engineVars, catalogVars, mcpVars, toolIdVars, streamVars, sandboxVars,
                   wsConnected, delivered>>

\* The backend receives a tool-approval-response the UI sent and hands it
\* to handleApprovalResponse.
ReceiveApprovalResponse(message) ==
    /\ message \in responses
    /\ message.requestId \in DOMAIN pendingApprovals
    /\ HandleApprovalResponse(message.requestId, message.decision, message.sessionId)

\* The engine with one UI connected to it: the requests reach the UI as
\* broadcasts and the decisions come back as the UI's responses.
NextUi ==
    \/ \E c \in Calls : Invoke(c, WriteFileTool, "s1", EmptyArgs)
    \/ \E c \in Calls, rec \in ToolRecords : CheckApproval(c, rec)
    \/ \E c \in Calls, rec \in ToolRecords : RegisterRequest(c, rec)
    \/ \E r \in RequestIds : TimeoutFire(r)
    \/ \E s \in Sessions : ClearPendingApprovals(s)
    \/ \E connected \in BOOLEAN : WebsocketConnects(connected)
    \/ \E payload \in BagToSet(broadcasts) : AddPendingApproval(payload)
    \/ \E r \in RequestIds, alwaysApprove \in BOOLEAN : ApproveRequest(r, alwaysApprove)
    \/ \E r \in RequestIds, alwaysDecline \in BOOLEAN : DeclineRequest(r, alwaysDecline)
    \/ \E message \in responses : ReceiveApprovalResponse(message)
    \/ \E r \in RequestIds : RemovePendingApproval(r)
    \/ \E r \in RequestIds : OpenApprovalDialog(r)
    \/ CloseApprovalDialog
    \/ UiClearSessionRules

UiSpec == Init /\ [][NextUi]_vars

\* ------------------------------------------- the UI store's selection
\* The module of the store is loaded: the store is created, persist puts
\* back what the storage holds, and the first fetchAvailableTools is
\* called and runs to its await.
Rehydrate(storage) ==
    /\ ~hasHydrated
    /\ hasHydrated' = TRUE
    /\ selectedToolIds' = IF storage.stored THEN storage.selectedToolIds
                          ELSE selectedToolIds
    /\ hasInitializedSelection' = IF storage.stored
                                  THEN storage.hasInitializedSelection
                                  ELSE hasInitializedSelection
    /\ loadingAvailableTools' = TRUE
    /\ fetchesInFlight' = fetchesInFlight + 1
    /\ UNCHANGED <<engineVars, mcpVars, toolIdVars, sandboxVars, uiVars, streamVars,
                   availableTools, errorLoadingAvailableTools, pendingSaves>>

\* The store's setAvailableTools
SetAvailableTools(toolIds) ==
    /\ hasHydrated
    /\ availableTools' = toolIds
    /\ selectedToolIds' =
          reconciledSelection(hasInitializedSelection, selectedToolIds, toolIds)
    /\ hasInitializedSelection' = TRUE
    /\ UNCHANGED <<engineVars, mcpVars, toolIdVars, sandboxVars, uiVars, streamVars,
                   loadingAvailableTools, errorLoadingAvailableTools,
                   hasHydrated, fetchesInFlight, pendingSaves>>

\* The store's mergeAvailableTools: the catalog becomes the new tools,
\* the selection is left as it is.
MergeAvailableTools(toolIds) ==
    /\ hasHydrated
    /\ availableTools' = toolIds
    /\ UNCHANGED <<engineVars, mcpVars, toolIdVars, sandboxVars, uiVars, streamVars,
                   loadingAvailableTools, errorLoadingAvailableTools,
                   selectedToolIds, hasInitializedSelection, hasHydrated,
                   fetchesInFlight, pendingSaves>>

\* fetchAvailableTools up to its await of getAvailableTools
FetchAvailableTools ==
    /\ hasHydrated
    /\ fetchesInFlight < MaxFetches
    /\ fetchesInFlight' = fetchesInFlight + 1
    /\ loadingAvailableTools' = TRUE
    /\ UNCHANGED <<engineVars, mcpVars, toolIdVars, sandboxVars, uiVars, streamVars,
                   availableTools, errorLoadingAvailableTools, selectedToolIds,
                   hasInitializedSelection, hasHydrated, pendingSaves>>

\* A fetchAvailableTools resumes with what getAvailableTools returned:
\* the catalog, or no data.
FetchAvailableToolsResolves(data) ==
    /\ fetchesInFlight > 0
    /\ fetchesInFlight' = fetchesInFlight - 1
    /\ IF data.given
       THEN /\ availableTools' = data.ids
            /\ selectedToolIds' =
                  reconciledSelection(hasInitializedSelection, selectedToolIds,
                                      data.ids)
            /\ hasInitializedSelection' = TRUE
       ELSE UNCHANGED <<availableTools, selectedToolIds, hasInitializedSelection>>
    /\ loadingAvailableTools' = FALSE
    /\ UNCHANGED <<engineVars, mcpVars, toolIdVars, sandboxVars, uiVars, streamVars,
                   errorLoadingAvailableTools, hasHydrated, pendingSaves>>

\* A fetchAvailableTools resumes with getAvailableTools having thrown.
FetchAvailableToolsRejects ==
    /\ fetchesInFlight > 0
    /\ fetchesInFlight' = fetchesInFlight - 1
    /\ errorLoadingAvailableTools' = TRUE
    /\ loadingAvailableTools' = FALSE
    /\ UNCHANGED <<engineVars, mcpVars, toolIdVars, sandboxVars, uiVars, streamVars,
                   availableTools, selectedToolIds, hasInitializedSelection,
                   hasHydrated, pendingSaves>>

\* The saves under way after a store action: with a current chat the
\* action's save joins them.
SavesWith(currentChat, save) ==
    IF currentChat # NoChat THEN pendingSaves \cup {save} ELSE pendingSaves

\* A store action that saves can start: with a current chat, while fewer
\* than MaxSaves saves are under way.
CanSave(currentChat) ==
    currentChat # NoChat => Cardinality(pendingSaves) < MaxSaves

\* The store's addSelectedTool up to its await of selectChatTools
AddSelectedTool(toolId, currentChat) ==
    /\ hasHydrated
    /\ CanSave(currentChat)
    /\ selectedToolIds' = selectedToolIds \cup {toolId}
    /\ pendingSaves' = SavesWith(currentChat,
                                 Save("select", currentChat, {toolId}, {}))
    /\ UNCHANGED <<engineVars, mcpVars, toolIdVars, sandboxVars, uiVars, streamVars,
                   availableTools, loadingAvailableTools,
                   errorLoadingAvailableTools, hasInitializedSelection,
                   hasHydrated, fetchesInFlight>>

\* The store's removeSelectedTool up to its await of deselectChatTools
RemoveSelectedTool(toolId, currentChat) ==
    /\ hasHydrated
    /\ CanSave(currentChat)
    /\ selectedToolIds' = selectedToolIds \ {toolId}
    /\ pendingSaves' = SavesWith(currentChat,
                                 Save("deselect", currentChat, {toolId}, {}))
    /\ UNCHANGED <<engineVars, mcpVars, toolIdVars, sandboxVars, uiVars, streamVars,
                   availableTools, loadingAvailableTools,
                   errorLoadingAvailableTools, hasInitializedSelection,
                   hasHydrated, fetchesInFlight>>

\* The store's setOnlyTools up to its await of deselectAllChatTools
SetOnlyTools(toolIds, currentChat) ==
    /\ hasHydrated
    /\ CanSave(currentChat)
    /\ selectedToolIds' = toolIds
    /\ pendingSaves' = SavesWith(currentChat,
                                 Save("deselectAll", currentChat, {}, toolIds))
    /\ UNCHANGED <<engineVars, mcpVars, toolIdVars, sandboxVars, uiVars, streamVars,
                   availableTools, loadingAvailableTools,
                   errorLoadingAvailableTools, hasInitializedSelection,
                   hasHydrated, fetchesInFlight>>

\* The chat's selection after the backend served a save's route.
SavedSelection(save, selection, allIds) ==
    IF save.route = "select" THEN addSelectedTools(selection, save.toolIds)
    ELSE IF save.route = "deselect"
         THEN removeSelectedTools(selection, allIds, save.toolIds)
    ELSE Array({})

\* A save's await resumes with the backend having served the route;
\* setOnlyTools goes on to select its ids.
SaveResolves(save) ==
    /\ save \in pendingSaves
    /\ chatSelectedTools' =
          [chatSelectedTools EXCEPT ![save.chatId] =
              SavedSelection(save, @,
                  getAllAvailableTools(sandboxedTools, archestraTools))]
    /\ pendingSaves' =
          (pendingSaves \ {save}) \cup
          IF save.route = "deselectAll" /\ save.next # {}
          THEN {Save("select", save.chatId, save.next, {})}
          ELSE {}
    /\ UNCHANGED <<engineVars, mcpVars, toolIdVars, sandboxVars, uiVars, sandboxedTools, archestraTools, wrappedTools,
                   streamRequests, availableTools, loadingAvailableTools,
                   errorLoadingAvailableTools, selectedToolIds,
                   hasInitializedSelection, hasHydrated, fetchesInFlight>>

\* A save's await resumes with the request having failed: it is logged.
SaveRejects(save) ==
    /\ save \in pendingSaves
    /\ pendingSaves' = pendingSaves \ {save}
    /\ UNCHANGED <<engineVars, mcpVars, toolIdVars, sandboxVars, uiVars, streamVars,
                   availableTools, loadingAvailableTools,
                   errorLoadingAvailableTools, selectedToolIds,
                   hasInitializedSelection, hasHydrated, fetchesInFlight>>

\* The subscriber of chat-tools-updated receives a chat's selection.
ChatToolsUpdated(chatId, selectedTools, currentChat) ==
    /\ hasHydrated
    /\ selectedToolIds' =
          IF currentChat # NoChat /\ currentChat = chatId
          THEN IF selectedTools.given THEN selectedTools.ids ELSE availableTools
          ELSE selectedToolIds
    /\ UNCHANGED <<engineVars, mcpVars, toolIdVars, sandboxVars, uiVars, streamVars,
                   availableTools, loadingAvailableTools,
                   errorLoadingAvailableTools, hasInitializedSelection,
                   hasHydrated, fetchesInFlight, pendingSaves>>

\* The catalogs and the selections the store is given.
Catalogs == SUBSET CatalogTools

OptionalCatalogs == {Unset} \cup {Array(ids) : ids \in Catalogs}

\* The UI's current chat: the followed chat, or none.
CurrentChats == ChatIds \cup {NoChat}

NextCatalog ==
    \/ \E storage \in StoredSelections : Rehydrate(storage)
    \/ \E toolIds \in Catalogs : SetAvailableTools(toolIds)
    \/ \E toolIds \in Catalogs : MergeAvailableTools(toolIds)
    \/ FetchAvailableTools
    \/ \E data \in OptionalCatalogs : FetchAvailableToolsResolves(data)
    \/ FetchAvailableToolsRejects
    \/ \E t \in CatalogTools, chat \in CurrentChats : AddSelectedTool(t, chat)
    \/ \E t \in CatalogTools, chat \in CurrentChats : RemoveSelectedTool(t, chat)
    \/ \E toolIds \in Catalogs, chat \in CurrentChats : SetOnlyTools(toolIds, chat)
    \/ \E save \in pendingSaves : SaveResolves(save)
    \/ \E save \in pendingSaves : SaveRejects(save)
    \/ \E chatId \in ChatIds, selectedTools \in OptionalCatalogs,
          chat \in CurrentChats : ChatToolsUpdated(chatId, selectedTools, chat)

CatalogSpec == Init /\ [][NextCatalog]_vars

\* ------------------------------------------- the first-party tool server
\* ArchestraMcpContext.setCurrentChatId
SetCurrentChatId(chatId) ==
    /\ currentChatId' = chatId
    /\ UNCHANGED <<engineVars, catalogVars, toolIdVars, streamVars, sandboxVars,
                   uiVars, activeStreams, mcpReply, mcpCalls>>

\* ArchestraMcpContext.clear
ClearContext ==
    /\ currentChatId' = NoChat
    /\ UNCHANGED <<engineVars, catalogVars, toolIdVars, streamVars, sandboxVars,
                   uiVars, activeStreams, mcpReply, mcpCalls>>

\* The selection of the context's chat, null without a chat.
ContextSelection ==
    IF currentChatId = NoChat THEN Unset ELSE chatSelectedTools[currentChatId]

\* A handler is called and runs to its await of
\* ChatModel.getSelectedTools, whose answer is the selection of this
\* moment; without a chat in the context it returns at once.
ToolCallStarts(tool, handled) ==
    /\ UNCHANGED <<currentChatId, activeStreams, chatSelectedTools,
                   sandboxedTools, archestraTools>>
    /\ IF currentChatId = NoChat
       THEN /\ mcpReply' = Reply(tool, NoChat, handled.text, {})
            /\ mcpCalls' = mcpCalls
       ELSE /\ BagCardinality(mcpCalls) < MaxHandlers
            /\ mcpReply' = mcpReply
            /\ mcpCalls' = mcpCalls (+) SetToBag({McpCall(tool, currentChatId, handled)})
    /\ UNCHANGED <<wrappedTools, streamRequests,
                   engineVars, catalogVars, toolIdVars, sandboxVars, uiVars>>

\* list_available_tools (without mcp_server) is called.
ListAvailableTools ==
    ToolCallStarts("list_available_tools",
        listAvailableTools(currentChatId, ContextSelection,
            getAllAvailableTools(sandboxedTools, archestraTools)))

\* enable_tools is called.
EnableTools(toolIds) ==
    ToolCallStarts("enable_tools",
        enableTools(currentChatId, ContextSelection, toolIds,
            getAllAvailableTools(sandboxedTools, archestraTools)))

\* disable_tools is called.
DisableTools(toolIds) ==
    ToolCallStarts("disable_tools",
        disableTools(currentChatId, ContextSelection, toolIds,
            getAllAvailableTools(sandboxedTools, archestraTools)))

\* The chat's selection after the store has carried out the write the
\* handler calls it for.
StoredBy(call, selection, allIds) ==
    IF StoreCall(call) = "addSelectedTools"
    THEN addSelectedTools(selection, call.ids)
    ELSE IF StoreCall(call) = "removeSelectedTools"
         THEN removeSelectedTools(selection, allIds, call.ids)
    ELSE selection

\* The stored selections after the store has carried out the write of
\* the call.
StoreWritten(call) ==
    [chatSelectedTools EXCEPT ![call.chatId] =
        StoredBy(call, @, getAllAvailableTools(sandboxedTools, archestraTools))]

\* ChatModel.getSelectedTools has answered and the handler resumes: it
\* validates, and returns its text when that is an error, a list or
\* nothing to do; with ids to write it calls addSelectedTools or
\* removeSelectedTools for the chat it took from the context and is
\* suspended at that await, having returned nothing yet. The store
\* writes at once when it is called (written), or later.
ToolCallResumes(call, written) ==
    /\ BagIn(call, mcpCalls)
    /\ call.awaits = "getSelectedTools"
    /\ UNCHANGED <<currentChatId, activeStreams, sandboxedTools, archestraTools>>
    /\ IF StoreCall(call) = "none"
       THEN /\ ~written
            /\ mcpReply' = Reply(call.tool, call.chatId, call.text,
                                 IF call.tool = "list_available_tools"
                                 THEN call.ids ELSE {})
            /\ mcpCalls' = mcpCalls (-) SetToBag({call})
            /\ chatSelectedTools' = chatSelectedTools
       ELSE /\ mcpReply' = mcpReply
            /\ mcpCalls' = (mcpCalls (-) SetToBag({call}))
                              (+) SetToBag({[call EXCEPT !.awaits = StoreCall(call),
                                                         !.written = written]})
            /\ chatSelectedTools' =
                  IF written THEN StoreWritten(call) ELSE chatSelectedTools
    /\ UNCHANGED <<engineVars, catalogVars, toolIdVars, sandboxVars, uiVars,
                   wrappedTools, streamRequests>>

\* The store carries out the write it was called for, some time before
\* it answers the handler.
StoreWrites(call) ==
    /\ BagIn(call, mcpCalls)
    /\ call.awaits \in {"addSelectedTools", "removeSelectedTools"}
    /\ ~call.written
    /\ UNCHANGED <<currentChatId, activeStreams, sandboxedTools, archestraTools,
                   mcpReply>>
    /\ chatSelectedTools' = StoreWritten(call)
    /\ mcpCalls' = (mcpCalls (-) SetToBag({call}))
                      (+) SetToBag({[call EXCEPT !.written = TRUE]})
    /\ UNCHANGED <<engineVars, catalogVars, toolIdVars, sandboxVars, uiVars,
                   wrappedTools, streamRequests>>

\* ChatModel.addSelectedTools or removeSelectedTools answers, having
\* written the chat's selection by now: the handler resumes and reads
\* the length of updatedTools for its text of success; when the store
\* answered null that read throws and the catch block returns the error.
ToolCallWrites(call, updatedTools) ==
    /\ BagIn(call, mcpCalls)
    /\ call.awaits \in {"addSelectedTools", "removeSelectedTools"}
    /\ UNCHANGED <<currentChatId, activeStreams, sandboxedTools, archestraTools>>
    /\ chatSelectedTools' =
          IF call.written THEN chatSelectedTools ELSE StoreWritten(call)
    /\ mcpReply' = Reply(call.tool, call.chatId,
                         IF updatedTools.given THEN call.text
                         ELSE CaughtText(call.tool), {})
    /\ mcpCalls' = mcpCalls (-) SetToBag({call})
    /\ UNCHANGED <<engineVars, catalogVars, toolIdVars, sandboxVars, uiVars,
                   wrappedTools, streamRequests>>

\* What the store answers a write with: null, or an array, of which the
\* handler reads the length.
UpdatedTools(call) == {Unset, Array(call.ids)}

\* The call of the store a handler awaits throws, writing no more than
\* it has written: the handler's catch block returns the error.
ToolCallThrows(call) ==
    /\ BagIn(call, mcpCalls)
    /\ UNCHANGED <<chatSelectedTools, currentChatId, activeStreams,
                   sandboxedTools, archestraTools>>
    /\ mcpReply' = Reply(call.tool, call.chatId, CaughtText(call.tool), {})
    /\ mcpCalls' = mcpCalls (-) SetToBag({call})
    /\ UNCHANGED <<engineVars, catalogVars, toolIdVars, sandboxVars, uiVars,
                   wrappedTools, streamRequests>>

\* The selections the user sets for a chat at once: all tools, or none.
WholeSelections == {Unset, Array({})}

\* The requests of a stream: with the chatId of a stored chat, or without.
StreamChatIds == StoredChatIds \cup {NoChat}

\* The first-party tool server with the stream route; the store writes
\* when it answers.
NextMcp ==
    \/ SandboxDiscovers(WriteFileTool, "original")
    \/ \E chatId \in StoredChatIds : StreamGetSelectedTools(chatId)
    \/ \E request \in BagToSet(streamRequests) \cup {NoChatRequest} :
          StreamLlmResponse(request, Unset)
    \/ \E chatId \in StreamChatIds : EndStream(chatId)
    \/ SetCurrentChatId(NoChat)
    \/ ClearContext
    \/ ListAvailableTools
    \/ EnableTools({WriteFileTool})
    \/ DisableTools({WriteFileTool})
    \/ \E call \in BagToSet(mcpCalls) : ToolCallResumes(call, FALSE)
    \/ \E call \in BagToSet(mcpCalls) :
          \E updatedTools \in UpdatedTools(call) : ToolCallWrites(call, updatedTools)
    \/ \E call \in BagToSet(mcpCalls) : ToolCallThrows(call)

McpSpec == Init /\ [][NextMcp]_vars

\* The toolIds arrays the LLM calls enable_tools and disable_tools with:
\* empty, one tool of a sandboxed server, an id that never exists, and
\* two ids of which one may be invalid.
RequestedToolIds ==
    {{}, {WriteFileTool}, {PushTool}, {ArchestraTool, WriteFileTool},
     {WriteFileTool, PushTool}}

\* enable_tools and disable_tools by themselves, with a context that is
\* set and cleared, a catalog that changes and a user who selects all or
\* none of the tools.
NextToolServer ==
    \/ SandboxDiscovers(WriteFileTool, "original")
    \/ SandboxDrops(WriteFileTool)
    \/ \E connected \in BOOLEAN : ArchestraConnects(connected)
    \/ \E chatId \in ChatIds \cup {NoChat} : SetCurrentChatId(chatId)
    \/ ClearContext
    \/ \E toolIds \in RequestedToolIds : EnableTools(toolIds)
    \/ \E toolIds \in RequestedToolIds : DisableTools(toolIds)
    \/ \E call \in BagToSet(mcpCalls), written \in BOOLEAN :
          ToolCallResumes(call, written)
    \/ \E call \in BagToSet(mcpCalls) : StoreWrites(call)
    \/ \E call \in BagToSet(mcpCalls) :
          \E updatedTools \in UpdatedTools(call) : ToolCallWrites(call, updatedTools)
    \/ \E call \in BagToSet(mcpCalls) : ToolCallThrows(call)
    \/ \E chatId \in ChatIds, selection \in WholeSelections :
          SetSelectedTools(chatId, selection)

ToolServerSpec == Init /\ [][NextToolServer]_vars

\* ------------------------------------------------------ terms of the claims
\* sub occurs somewhere in str.
Occurs(sub, str) ==
    \E i \in 1 .. Len(str) :
        i + Len(sub) - 1 <= Len(str) /\ SubSeq(str, i, i + Len(sub) - 1) = sub

\* The round trip gave back the arguments of constructToolId.
RoundTrips ==
    /\ deconstructedToolId.serverName = constructedToolId.serverId
    /\ deconstructedToolId.toolName = constructedToolId.toolName

FirstPartyTools == {ArchestraTool}

HasRule(sessionId, toolId) ==
    /\ sessionId \in DOMAIN sessionApprovalRules
    /\ toolId \in DOMAIN sessionApprovalRules[sessionId]

RuleAt(sessionId, toolId) == sessionApprovalRules[sessionId][toolId]

\* The call's request has been put into the registry at some point.
Registered(c) == calls[c].requestId # 0 /\ calls[c].pc # "getTool"

\* Number of tool-approval-request broadcasts sent with this requestId.
BroadcastsFor(requestId) ==
    BagCardinality([p \in {q \in DOMAIN broadcasts : q.requestId = requestId} |->
                       broadcasts[p]])

Resolved(requestId, how) ==
    requestId \in DOMAIN outcome /\ outcome[requestId] = how

\* ---------------------------------------------------------------------- C1
\* C1: the underlying tool implementation of a wrapped call runs only when
\* the requestApproval promise of that same call was fulfilled with true;
\* a call fulfilled with false ends in the declined error, a call whose
\* approval was rejected (timeout, session ended) fails, and in neither case
\* did the implementation run.
C1_ExecutesOnlyAfterApproval ==
    \A c \in Calls :
        /\ executions[c] > 0 => promise[c] = "true"
        /\ promise[c] = "false" => calls[c].pc = "declined" /\ executions[c] = 0
        /\ promise[c] \in {"timeout", "session_ended"} =>
               calls[c].pc = "failed" /\ executions[c] = 0

C1_Witness ==
    \E c1, c2 \in Calls :
        /\ Resolved(calls[c1].requestId, "approve")
        /\ calls[c1].pc = "executed" /\ executions[c1] = 1
        /\ Resolved(calls[c2].requestId, "decline")
        /\ calls[c2].pc = "declined" /\ executions[c2] = 0

\* ---------------------------------------------------------------------- C2
\* C2: for a tool that is not first-party and for which the store has no
\* record, a call that finds no session rule does not return true: it goes
\* on to create a request, and its registration puts the request into the
\* pending registry and leaves the caller suspended, the tool not run.
C2_UnknownToolRequiresApproval ==
    [][\A c \in Calls :
          /\ ( /\ calls[c].toolId \notin FirstPartyTools
               /\ ~HasRule(calls[c].sessionId, calls[c].toolId)
               /\ CheckApproval(c, "no_record") )
             => ( /\ calls'[c].pc = "getTool"
                  /\ promise'[c] = "pending"
                  /\ executions'[c] = 0 )
          /\ ( /\ calls[c].record = "no_record"
               /\ \E rec \in ToolRecords : RegisterRequest(c, rec) )
             => ( /\ calls'[c].requestId \in DOMAIN pendingApprovals'
                  /\ calls'[c].pc = "waiting"
                  /\ promise'[c] = "pending"
                  /\ executions'[c] = 0 )
      ]_vars

C2_Witness ==
    \E c \in Calls :
        /\ calls[c].toolId \notin FirstPartyTools
        /\ calls[c].record = "no_record"
        /\ calls[c].pc = "waiting"
        /\ calls[c].requestId \in DOMAIN pendingApprovals
        /\ promise[c] = "pending"

\* ---------------------------------------------------------------------- C3
\* C3: under every interleaving of responses, timeouts and session clears
\* the continuation (resolve or reject) of a request is invoked at most
\* once, and a response for a requestId that was already resolved changes
\* nothing of its caller.
C3_ResolvesExactlyOnce ==
    [][ /\ \A c \in Calls : settlements'[c] <= 1
        /\ \A r \in RequestIds, d \in Decisions, s \in Sessions :
              (r \in DOMAIN outcome /\ HandleApprovalResponse(r, d, s))
              => UNCHANGED <<promise, settlements, calls, executions>>
      ]_vars

C3_Witness ==
    \E r \in DOMAIN outcome :
        /\ r \notin DOMAIN pendingApprovals
        /\ r \notin timers
        /\ settlements[CallOf(r)] = 1

\* ---------------------------------------------------------------------- C4
\* C4: every created request is eventually terminated.  A suspended caller
\* is resumed only through its registry entry or its timer, and an active
\* timer is assumed to fire, so the claim is that a caller suspended on a
\* request always still has that request's timer active.
C4_CreatedRequestIsTerminated ==
    \A c \in Calls : calls[c].pc = "waiting" => calls[c].requestId \in timers

\* ---------------------------------------------------------------------- C5
\* C5: a call to a first-party tool is approved without a request whatever
\* the store holds for it; a call to another tool whose record has is_write
\* false or null is approved without a request; a call to another tool whose
\* record has is_write true is not auto-approved: with no session rule it
\* goes on to create a request.
C5_NeedsApprovalIffWrite ==
    [][\A c \in Calls, rec \in ToolRecords :
          CheckApproval(c, rec) =>
             /\ calls[c].toolId \in FirstPartyTools =>
                   promise'[c] = "true" /\ calls'[c].requestId = 0
             /\ ( /\ calls[c].toolId \notin FirstPartyTools
                  /\ rec \in {"is_write_false", "is_write_null"} )
                => promise'[c] = "true" /\ calls'[c].requestId = 0
             /\ ( /\ calls[c].toolId \notin FirstPartyTools
                  /\ rec = "is_write_true"
                  /\ ~HasRule(calls[c].sessionId, calls[c].toolId) )
                => promise'[c] = "pending" /\ calls'[c].pc = "getTool"
      ]_vars

C5_Witness ==
    \E c1, c2 \in Calls :
        /\ calls[c1].toolId \notin FirstPartyTools
        /\ calls[c1].pc = "executed" /\ calls[c1].requestId = 0
        /\ DOMAIN sessionApprovalRules = {}
        /\ calls[c2].toolId \notin FirstPartyTools
        /\ calls[c2].record = "is_write_true"
        /\ calls[c2].pc = "waiting"

\* ---------------------------------------------------------------------- C6
\* C6: when requestApproval comes to evaluate the session rules (the tool
\* needs approval) and a rule exists for its (sessionId, toolId), the call
\* creates no request, sends no broadcast, starts no timer and is not
\* suspended: it returns true for always_approve, false for always_decline.
C6_SessionRuleShortCircuits ==
    [][\A c \in Calls, rec \in {"no_record", "is_write_true"} :
          ( /\ calls[c].toolId \notin FirstPartyTools
            /\ HasRule(calls[c].sessionId, calls[c].toolId)
            /\ CheckApproval(c, rec) )
          => /\ promise'[c] =
                   IF RuleAt(calls[c].sessionId, calls[c].toolId) = "always_approve"
                   THEN "true" ELSE "false"
             /\ calls'[c].pc =
                   IF RuleAt(calls[c].sessionId, calls[c].toolId) = "always_approve"
                   THEN "executed" ELSE "declined"
             /\ calls'[c].requestId = 0
             /\ UNCHANGED <<pendingApprovals, broadcasts, timers>>
      ]_vars

C6_Witness ==
    \E c1, c2 \in Calls :
        /\ Resolved(calls[c1].requestId, "approve_always")
        /\ HasRule(calls[c1].sessionId, calls[c1].toolId)
        /\ RuleAt(calls[c1].sessionId, calls[c1].toolId) = "always_approve"
        /\ HasRule(calls[c2].sessionId, calls[c2].toolId)
        /\ RuleAt(calls[c2].sessionId, calls[c2].toolId) = "always_decline"
        /\ calls[c2].pc = "declined" /\ calls[c2].requestId = 0
        /\ promise[c2] = "false"

\* ---------------------------------------------------------------------- C7
\* C7: a response approve or approve_always for a pending request fulfils
\* the suspended caller with true and removes the request; with
\* approve_always the always_approve rule for the response's sessionId and
\* the request's toolId is in the table in the state in which the caller
\* resumes; with approve the table is left as it was.
C7_ApproveFulfilsWithRuleRecorded ==
    [][\A r \in RequestIds, d \in {"approve", "approve_always"}, s \in Sessions :
          (r \in DOMAIN pendingApprovals /\ HandleApprovalResponse(r, d, s))
          => /\ promise[CallOf(r)] = "pending"
             /\ promise'[CallOf(r)] = "true"
             /\ calls'[CallOf(r)].pc = "executed"
             /\ r \notin DOMAIN pendingApprovals'
             /\ d = "approve_always" =>
                   /\ s \in DOMAIN sessionApprovalRules'
                   /\ pendingApprovals[r].toolId \in DOMAIN sessionApprovalRules'[s]
                   /\ sessionApprovalRules'[s][pendingApprovals[r].toolId]
                         = "always_approve"
             /\ d = "approve" => UNCHANGED sessionApprovalRules
      ]_vars

C7_Witness ==
    \E r \in DOMAIN outcome :
        /\ outcome[r] = "approve_always"
        /\ promise[CallOf(r)] = "true"
        /\ calls[CallOf(r)].pc = "executed"
        /\ r \notin DOMAIN pendingApprovals
        /\ HasRule(calls[CallOf(r)].sessionId, calls[CallOf(r)].toolId)

\* ---------------------------------------------------------------------- C8
\* C8: exactly one tool-approval-request broadcast, carrying the request's
\* id, tool and session, has been sent for every call that created a
\* request, and none for a call that was auto-approved or short-circuited
\* by a rule.
C8_OneBroadcastPerRequest ==
    /\ \A c \in Calls :
          BroadcastsFor(randomUUID(c)) = IF Registered(c) THEN 1 ELSE 0
    /\ \A p \in DOMAIN broadcasts :
          \E c \in Calls :
              /\ Registered(c)
              /\ p.requestId = calls[c].requestId
              /\ p.toolId = calls[c].toolId
              /\ p.sessionId = calls[c].sessionId

\* The scenario of the claim: the first call was answered approve_always,
\* the second call to the same tool in the same session came back true
\* without a request, and one broadcast was sent in total.
C8_Witness ==
    \E c1, c2 \in Calls :
        /\ c1 # c2
        /\ calls[c1].toolId = calls[c2].toolId
        /\ calls[c1].sessionId = calls[c2].sessionId
        /\ Resolved(calls[c1].requestId, "approve_always")
        /\ promise[c1] = "true"
        /\ calls[c2].requestId = 0
        /\ promise[c2] = "true"
        /\ BagCardinality(broadcasts) = 1

\* ---------------------------------------------------------------------- C9
\* C9: the timer of a pending request firing rejects the caller with the
\* timeout error and removes the request from the registry, and a request
\* that timed out is never in the registry again.
C9_TimeoutRejectsAndRemoves ==
    [][\A r \in RequestIds :
          /\ (r \in DOMAIN pendingApprovals /\ TimeoutFire(r))
             => /\ promise'[CallOf(r)] = "timeout"
                /\ calls'[CallOf(r)].pc = "failed"
                /\ executions'[CallOf(r)] = 0
                /\ r \notin DOMAIN pendingApprovals'
          /\ (r \in DOMAIN outcome' /\ outcome'[r] = "timeout")
             => r \notin DOMAIN pendingApprovals'
      ]_vars

C9_Witness ==
    \E r \in DOMAIN outcome :
        /\ outcome[r] = "timeout"
        /\ promise[CallOf(r)] = "timeout"
        /\ calls[CallOf(r)].pc = "failed"
        /\ r \notin DOMAIN pendingApprovals

\* --------------------------------------------------------------------- C10
\* C10: clearPendingApprovals(sessionId) rejects every request pending for
\* that session with the session-ended error, clears its timer and removes
\* it from the registry; every pending request of another session stays in
\* the registry unchanged, its timer active and its caller suspended.
C10_SessionEndCancelsOnlyItsRequests ==
    [][\A s \in Sessions :
          ClearPendingApprovals(s) =>
             \A r \in DOMAIN pendingApprovals :
                 IF pendingApprovals[r].sessionId = s
                 THEN /\ r \notin DOMAIN pendingApprovals'
                      /\ r \notin timers'
                      /\ promise'[CallOf(r)] = "session_ended"
                      /\ calls'[CallOf(r)].pc = "failed"
                 ELSE /\ r \in DOMAIN pendingApprovals'
                      /\ pendingApprovals'[r] = pendingApprovals[r]
                      /\ r \in timers /\ r \in timers'
                      /\ promise'[CallOf(r)] = "pending"
                      /\ calls'[CallOf(r)].pc = "waiting"
      ]_vars

C10_Witness ==
    \E r1 \in DOMAIN outcome, r2 \in DOMAIN pendingApprovals :
        /\ outcome[r1] = "session_ended"
        /\ promise[CallOf(r1)] = "session_ended"
        /\ r1 \notin DOMAIN pendingApprovals /\ r1 \notin timers
        /\ calls[CallOf(r1)].sessionId # pendingApprovals[r2].sessionId
        /\ r2 \in timers
        /\ promise[CallOf(r2)] = "pending"

\* --------------------------------------------------------------------- C11
\* C11: a response for a requestId that is not in the registry (never
\* created, already resolved, or dropped) completes as a no-op whatever the
\* decision: no continuation is invoked, no caller moves, and the pending
\* registry, the timers and the session-rule table are left as they were.
C11_UnknownRequestIsNoOp ==
    [][\A r \in RequestIds, d \in Decisions, s \in Sessions :
          ( /\ r \notin DOMAIN pendingApprovals \/ r \in DOMAIN outcome
            /\ HandleApprovalResponse(r, d, s) )
          => UNCHANGED <<pendingApprovals, sessionApprovalRules, timers,
                         promise, settlements, calls, executions>>
      ]_vars

\* A request that was declined and is gone from the registry, with an empty
\* rule table: the state an approve_always for it is handled in and leaves.
C11_Witness ==
    \E r \in DOMAIN outcome :
        /\ outcome[r] = "decline"
        /\ r \notin DOMAIN pendingApprovals
        /\ settlements[CallOf(r)] = 1
        /\ promise[CallOf(r)] = "false"
        /\ DOMAIN sessionApprovalRules = {}

\* --------------------------------------------------------------------- C12
\* C12: a decline for a pending request fulfils the suspended caller with
\* false (the wrapper then raises the declined error; the tool does not
\* run) and adds no rule; a caller's promise is rejected only by the step
\* of its request's timer or by a session-end sweep.
C12_DeclineFulfilsFalse ==
    [][ /\ \A r \in RequestIds, s \in Sessions :
              (r \in DOMAIN pendingApprovals /\ HandleApprovalResponse(r, "decline", s))
              => /\ promise'[CallOf(r)] = "false"
                 /\ calls'[CallOf(r)].pc = "declined"
                 /\ settlements'[CallOf(r)] = settlements[CallOf(r)] + 1
                 /\ r \notin DOMAIN pendingApprovals'
                 /\ UNCHANGED sessionApprovalRules
        /\ \A c \in Calls :
              (promise[c] = "pending" /\ promise'[c] \notin {"pending", "true", "false"})
              => \/ /\ TimeoutFire(calls[c].requestId)
                    /\ promise'[c] = "timeout"
                 \/ /\ ClearPendingApprovals(calls[c].sessionId)
                    /\ promise'[c] = "session_ended"
      ]_vars

C12_Witness ==
    \E r \in DOMAIN outcome :
        /\ outcome[r] = "decline"
        /\ promise[CallOf(r)] = "false"
        /\ calls[CallOf(r)].pc = "declined"
        /\ executions[CallOf(r)] = 0
        /\ settlements[CallOf(r)] = 1

\* --------------------------------------------------------------------- C13
\* C13: when the response the UI sends for a request resolved with
\* "remember my choice" checked (approveRequest or declineRequest with the
\* flag set) is handled for that pending request, the rule table holds
\* afterwards a rule for the request's (sessionId, toolId): always_approve
\* for an approval, always_decline for a decline.
C13_RememberedChoiceRecordsRule ==
    [][\A r \in RequestIds, choice \in {"approve", "decline"} :
          r \in DOMAIN pendingApprovals =>
             LET request == pendingApprovals[r]
                 response == IF choice = "approve"
                             THEN approveRequest(Payload(request), TRUE)
                             ELSE declineRequest(Payload(request), TRUE)
             IN  HandleApprovalResponse(response.requestId, response.decision,
                                        response.sessionId)
                 => /\ request.sessionId \in DOMAIN sessionApprovalRules'
                    /\ request.toolId \in DOMAIN sessionApprovalRules'[request.sessionId]
                    /\ sessionApprovalRules'[request.sessionId][request.toolId] =
                          IF choice = "approve" THEN "always_approve"
                          ELSE "always_decline"
      ]_vars

\* --------------------------------------------------------------------- C15
\* C15: clearSessionRules(sessionId) leaves no rule of that session and
\* leaves the rules of every other session as they were; a call to a
\* write-classified tool that evaluates the rules of a session that has
\* none goes on to create a request.
C15_ClearedSessionAsksAgain ==
    [][ /\ \A s \in Sessions :
              ClearSessionRules(s) =>
                 /\ s \notin DOMAIN sessionApprovalRules'
                 /\ \A t \in Tools :
                       checkSessionRule(sessionApprovalRules', s, t, EmptyArgs) = "null"
                 /\ \A other \in Sessions \ {s} :
                       /\ other \in DOMAIN sessionApprovalRules'
                             <=> other \in DOMAIN sessionApprovalRules
                       /\ other \in DOMAIN sessionApprovalRules =>
                             sessionApprovalRules'[other] = sessionApprovalRules[other]
        /\ \A c \in Calls :
              ( /\ calls[c].sessionId \notin DOMAIN sessionApprovalRules
                /\ calls[c].toolId \notin FirstPartyTools
                /\ CheckApproval(c, "is_write_true") )
              => /\ calls'[c].pc = "getTool"
                 /\ calls'[c].requestId # 0
                 /\ promise'[c] = "pending"
      ]_vars

\* The first call was answered approve_always and a later call of the same
\* tool in the same session was let through by that rule; the session has
\* no rules any more while the other session still has its own.
C15_Witness ==
    \E c1, c2 \in Calls, other \in Sessions :
        /\ c1 # c2
        /\ calls[c1].toolId = calls[c2].toolId
        /\ calls[c1].sessionId = calls[c2].sessionId
        /\ Resolved(calls[c1].requestId, "approve_always")
        /\ calls[c2].pc = "executed" /\ calls[c2].requestId = 0
        /\ calls[c2].toolId \notin FirstPartyTools
        /\ calls[c1].sessionId \notin DOMAIN sessionApprovalRules
        /\ other # calls[c1].sessionId
        /\ other \in DOMAIN sessionApprovalRules

\* --------------------------------------------------------------------- C16
\* C16: the rule table maps each (sessionId, toolId) pair to at most one
\* decision; a step that records a rule (addSessionRule called directly, or
\* an approve_always response for a pending request) leaves the pair with
\* exactly the new decision, whatever it held before, and leaves every
\* other pair of every session as it was (a step that leaves the table
\* unchanged records only the decision the pair already held).
C16_OneRulePerPairOverwrite ==
    [][\A s \in Sessions, t \in Tools, d \in RuleDecisions :
          LET RecordsRule ==
                 \/ /\ UNCHANGED <<pendingApprovals, calls>>
                    /\ AddSessionRule(s, t, EmptyArgs, d)
                 \/ /\ d = "always_approve"
                    /\ pendingApprovals' # pendingApprovals
                    /\ \E r \in DOMAIN pendingApprovals :
                          /\ pendingApprovals[r].toolId = t
                          /\ HandleApprovalResponse(r, "approve_always", s)
          IN  IF sessionApprovalRules' = sessionApprovalRules
              THEN checkSessionRule(sessionApprovalRules, s, t, EmptyArgs) # d
                      => ~RecordsRule
              ELSE RecordsRule =>
                 /\ checkSessionRule(sessionApprovalRules', s, t, EmptyArgs) = d
                 /\ DOMAIN sessionApprovalRules' = DOMAIN sessionApprovalRules \cup {s}
                 /\ \A s2 \in DOMAIN sessionApprovalRules' :
                       \A k \in DOMAIN sessionApprovalRules'[s2] :
                           k \in Tools /\ sessionApprovalRules'[s2][k] \in RuleDecisions
                 /\ \A s2 \in Sessions, t2 \in Tools :
                       <<s2, t2>> # <<s, t>> =>
                          checkSessionRule(sessionApprovalRules', s2, t2, EmptyArgs) =
                             checkSessionRule(sessionApprovalRules, s2, t2, EmptyArgs)
      ]_vars

\* A call was turned down by an always_decline rule of its pair, the pair
\* now holds always_approve, and another pair of the session has a rule.
C16_Witness ==
    \E c \in Calls, t2 \in Tools :
        /\ calls[c].pc = "declined" /\ calls[c].requestId = 0
        /\ HasRule(calls[c].sessionId, calls[c].toolId)
        /\ RuleAt(calls[c].sessionId, calls[c].toolId) = "always_approve"
        /\ t2 # calls[c].toolId
        /\ HasRule(calls[c].sessionId, t2)

\* --------------------------------------------------------------------- C17
\* C17: the session-rule check gives the same answer for every argument
\* object: in every state, for each (sessionId, toolId), checkSessionRule
\* returns one rule (or none) whatever the arguments; the step of a call
\* that evaluates the rules ends as the check with any other arguments
\* would have it end; and the rule an approve_always records is the same
\* whatever the arguments of the approved call.
C17_RulesIgnoreArguments ==
    [][ /\ \A s \in Sessions, t \in Tools, a1, a2 \in Args :
              checkSessionRule(sessionApprovalRules', s, t, a1) =
                 checkSessionRule(sessionApprovalRules', s, t, a2)
        /\ \A c \in Calls, rec \in {"no_record", "is_write_true"}, a \in Args :
              ( /\ calls[c].toolId \notin FirstPartyTools
                /\ CheckApproval(c, rec) )
              => LET rule == checkSessionRule(sessionApprovalRules, calls[c].sessionId,
                                              calls[c].toolId, a)
                 IN  /\ rule = "always_approve" =>
                           promise'[c] = "true" /\ calls'[c].requestId = 0
                     /\ rule = "always_decline" =>
                           promise'[c] = "false" /\ calls'[c].requestId = 0
                     /\ rule = "null" =>
                           promise'[c] = "pending" /\ calls'[c].pc = "getTool"
        /\ \A r \in RequestIds, s \in Sessions, a \in Args :
              (r \in DOMAIN pendingApprovals /\ HandleApprovalResponse(r, "approve_always", s))
              => sessionApprovalRules' =
                    addSessionRule(sessionApprovalRules, s, pendingApprovals[r].toolId,
                                   a, "always_approve")
      ]_vars

\* Two calls of one tool in one session with different arguments: the first
\* was answered approve_always, the second was let through by that rule.
C17_Witness ==
    \E c1, c2 \in Calls :
        /\ calls[c1].toolId = calls[c2].toolId
        /\ calls[c1].sessionId = calls[c2].sessionId
        /\ calls[c1].args # calls[c2].args
        /\ Resolved(calls[c1].requestId, "approve_always")
        /\ HasRule(calls[c1].sessionId, calls[c1].toolId)
        /\ calls[c2].toolId \notin FirstPartyTools
        /\ calls[c2].requestId = 0
        /\ calls[c2].pc = "executed"

\* --------------------------------------------------------------------- C14
\* C14 (as claimed): for every serverId and toolName, deconstructToolId of
\* the id constructToolId built returns exactly that serverId and that
\* toolName, also when either contains the separator or begins or ends
\* with underscores.
C14_RoundTripAlways ==
    deconstructedToolId # NoResult => RoundTrips

\* C14 (amended): the round trip returns exactly serverId and toolName
\* whenever toolName neither contains the separator nor begins with an
\* underscore, whatever serverId is (it may contain the separator and begin
\* or end with underscores; toolName may end with an underscore).
C14_RoundTripUnlessNameSplits ==
    ( /\ deconstructedToolId # NoResult
      /\ ~Occurs(TOOL_ID_SERVER_TOOL_NAME_SEPARATOR, constructedToolId.toolName)
      /\ ~startsWith(constructedToolId.toolName, <<"_">>) )
    => RoundTrips

\* A server id that contains the separator and ends with an underscore, a
\* tool name that ends with an underscore, and a round trip that gave both
\* back.
C14_Witness ==
    /\ deconstructedToolId # NoResult
    /\ Occurs(TOOL_ID_SERVER_TOOL_NAME_SEPARATOR, constructedToolId.serverId)
    /\ constructedToolId.serverId[Len(constructedToolId.serverId)] = "_"
    /\ Len(constructedToolId.toolName) > 1
    /\ constructedToolId.toolName[Len(constructedToolId.toolName)] = "_"
    /\ RoundTrips

\* ---------------------------------------------------------------- C19
\* The ids every provider knows at the moment.
KnownIds == DOMAIN sandboxedTools \cup DOMAIN archestraTools

\* The ids the stream route hands to getToolsById (for a chat, those of
\* the selection the store answered); none when it does not call it.
LookedUpIds(request, requestedTools) ==
    IF request.chatId # 0
    THEN IF request.selection.given THEN request.selection.ids ELSE {}
    ELSE IF requestedTools.given THEN requestedTools.ids ELSE {}

\* C19: a stream request that looks tools up by id is offered exactly the
\* requested ids that some provider knows (the others are dropped and the
\* request still gets its tools), and an id the sandboxed servers know is
\* offered as their tool even when the first-party provider knows it too.
C19_OnlyRequestedAndFound ==
    [][\A request \in BagToSet(streamRequests) \cup {NoChatRequest},
          requestedTools \in StreamSelections :
          (StreamLlmResponse(request, requestedTools)
             /\ LookedUpIds(request, requestedTools) # {})
          => /\ DOMAIN wrappedTools' = LookedUpIds(request, requestedTools) \cap KnownIds
             /\ \A id \in DOMAIN wrappedTools' :
                   wrappedTools'[id].provider =
                     IF id \in DOMAIN sandboxedTools
                     THEN "sandboxed" ELSE "archestra"]_vars

\* Both providers know the first-party id, the chat selected it together
\* with an id no provider knows, and the stream offered the sandboxed tool
\* alone.
C19_Witness ==
    /\ ArchestraTool \in DOMAIN sandboxedTools \cap DOMAIN archestraTools
    /\ chatSelectedTools[1].given
    /\ ArchestraTool \in chatSelectedTools[1].ids
    /\ chatSelectedTools[1].ids \ KnownIds # {}
    /\ DOMAIN wrappedTools = {ArchestraTool}
    /\ wrappedTools[ArchestraTool].provider = "sandboxed"

\* ---------------------------------------------------------------- C18
\* C18: a stream request of a chat is offered all tools when the chat's
\* selection, as the store answered it to the request, is null, none when
\* it is empty, and otherwise the selected ids that resolve to a tool when
\* the tools are chosen; no offered tool keeps an ungated execute.
C18_OfferScopedBySelection ==
    [][\A request \in BagToSet(streamRequests), requestedTools \in StreamSelections :
          StreamLlmResponse(request, requestedTools)
          => /\ DOMAIN wrappedTools' =
                   IF ~request.selection.given THEN KnownIds
                   ELSE request.selection.ids \cap KnownIds
             /\ \A id \in DOMAIN wrappedTools' :
                   wrappedTools'[id].execute # "original"]_vars

\* The chat selected one id that resolves and one that does not, and the
\* stream offered the first, gated, and nothing else.
C18_Witness ==
    /\ chatSelectedTools[1].given
    /\ chatSelectedTools[1].ids \cap KnownIds # {}
    /\ chatSelectedTools[1].ids \ KnownIds # {}
    /\ KnownIds \ chatSelectedTools[1].ids # {}
    /\ DOMAIN wrappedTools = chatSelectedTools[1].ids \cap KnownIds
    /\ \A id \in DOMAIN wrappedTools : wrappedTools[id].execute = "gated"

\* ---------------------------------------------------------------- C20
\* What follows the last separator of an id, the id itself without one.
AfterLastSeparator(id) ==
    LET at == {i \in 1 .. Len(id) - 1 : id[i] = "_" /\ id[i + 1] = "_"}
    IN  IF at = {} THEN id ELSE SubSeq(id, Max(at) + 2, Len(id))

\* The keys of the cache entries that belong to a tool.
KeysOf(id) ==
    {k \in DOMAIN cachedToolAnalysis : AfterLastSeparator(k) = AfterLastSeparator(id)}

\* The verdicts of a tool's cache entry.
Verdict(id) ==
    LET entry == cachedToolAnalysis[CHOOSE k \in KeysOf(id) : TRUE]
    IN  [is_read |-> entry.is_read, is_write |-> entry.is_write]

HasAnalyzedAt(id) ==
    \E k \in KeysOf(id) : cachedToolAnalysis[k].analyzed_at # "null"

\* C20: a read of availableToolsList returns exactly one descriptor for
\* each discovered tool, with the full id, the name after the last
\* separator, status completed exactly when the tool's cache entry has an
\* analyzed_at timestamp (then with the entry's is_read and is_write, null
\* included), and otherwise the awaiting status with both null.
C20_ListReportsIdNameAnalysis ==
    [][GetAvailableToolsList
       => /\ {d.id : d \in listedTools'} = discoveredTools
          /\ Cardinality(listedTools') = Cardinality(discoveredTools)
          /\ \A d \in listedTools' :
                /\ d.name = AfterLastSeparator(d.id)
                /\ d.analysis.status = "completed" <=> HasAnalyzedAt(d.id)
                /\ d.analysis.status \in {"completed", "awaiting_ollama_model"}
                /\ HasAnalyzedAt(d.id)
                     => /\ d.analysis.is_read = Verdict(d.id).is_read
                        /\ d.analysis.is_write = Verdict(d.id).is_write
                /\ ~HasAnalyzedAt(d.id)
                     => /\ d.analysis.is_read = "null"
                        /\ d.analysis.is_write = "null"]_vars

\* The list holds a tool whose id has two separators, analysed as neither
\* read nor write and reported completed, next to a tool without a cache
\* entry reported awaiting.
C20_Witness ==
    /\ \E d \in listedTools :
          /\ lastIndexOf_First(d.id, TOOL_ID_SERVER_TOOL_NAME_SEPARATOR)
               # lastIndexOf(d.id, TOOL_ID_SERVER_TOOL_NAME_SEPARATOR)
          /\ HasAnalyzedAt(d.id)
          /\ d.analysis = [status |-> "completed", is_read |-> "null",
                           is_write |-> "null"]
    /\ \E d \in listedTools :
          /\ KeysOf(d.id) = {}
          /\ d.analysis.status = "awaiting_ollama_model"

\* ---------------------------------------------------------------- C22
\* C22: in every reachable state the requests with an active timer are
\* the requests of the pending registry, none of them has been resolved,
\* and the caller of every resolved request was settled exactly once.
C22_TimerIffPending ==
    /\ timers = DOMAIN pendingApprovals
    /\ \A r \in timers : r \notin DOMAIN outcome
    /\ \A r \in DOMAIN outcome : settlements[CallOf(r)] = 1

\* One request was resolved by a decision and has neither timer nor
\* registry entry, while another is pending with its timer running.
C22_Witness ==
    \E r1 \in DOMAIN outcome, r2 \in timers :
        /\ outcome[r1] \in Decisions
        /\ r1 \notin timers \cup DOMAIN pendingApprovals
        /\ r2 \in DOMAIN pendingApprovals

\* ---------------------------------------------------------------- C23
\* The call is suspended at one of requestApproval's awaits.
Suspended(c) == calls[c].pc \in {"needsApproval", "getTool"}

\* C23: a sweep of a session rejects and removes every request the
\* registry holds for that session, leaves the other sessions' requests
\* and the calls suspended at an await as they are; such a call's request
\* enters the registry when the call resumes; and a request leaves the
\* registry only by its own decision, its timeout or a sweep of its
\* session.
C23_SweepAtomicWithCreation ==
    [][/\ \A s \in Sessions :
            ClearPendingApprovals(s)
            => /\ \A r \in DOMAIN pendingApprovals :
                     IF pendingApprovals[r].sessionId = s
                     THEN /\ r \notin DOMAIN pendingApprovals'
                          /\ promise'[CallOf(r)] = "session_ended"
                     ELSE /\ r \in DOMAIN pendingApprovals'
                          /\ promise'[CallOf(r)] = "pending"
               /\ \A c \in Calls :
                     Suspended(c) => calls'[c] = calls[c] /\ promise'[c] = "pending"
       /\ \A c \in Calls, rec \in ToolRecords :
            RegisterRequest(c, rec)
            => /\ calls[c].requestId \in DOMAIN pendingApprovals'
               /\ promise'[c] = "pending"
       /\ \A r \in DOMAIN pendingApprovals :
            r \notin DOMAIN pendingApprovals'
            => /\ r \in DOMAIN outcome'
               /\ outcome'[r] \in Decisions \cup {"timeout", "session_ended"}
               /\ outcome'[r] = "session_ended"
                    => ClearPendingApprovals(pendingApprovals[r].sessionId)
               /\ promise'[CallOf(r)] # "pending"]_vars

\* A request of a session is pending although a sweep of that session
\* has rejected another request: it entered the registry after the sweep.
C23_Witness ==
    \E r1 \in DOMAIN outcome, r2 \in DOMAIN pendingApprovals :
        /\ outcome[r1] = "session_ended"
        /\ calls[CallOf(r1)].sessionId = pendingApprovals[r2].sessionId
        /\ promise[CallOf(r2)] = "pending"

\* ---------------------------------------------------------------- C24
\* C24: a decision for a pending request r removes r, stops its timer and
\* resumes its caller with the decision's value, whatever else is pending;
\* every other pending request keeps its registry entry, its timer and
\* its suspended caller, and no other call moves.
C24_ResolvedByOwnRequestId ==
    [][\A r \in DOMAIN pendingApprovals, d \in Decisions, s \in Sessions :
          HandleApprovalResponse(r, d, s)
          => /\ r \notin DOMAIN pendingApprovals' /\ r \notin timers'
             /\ outcome'[r] = d
             /\ promise'[CallOf(r)] = IF d = "decline" THEN "false" ELSE "true"
             /\ \A r2 \in DOMAIN pendingApprovals \ {r} :
                   /\ r2 \in DOMAIN pendingApprovals'
                   /\ pendingApprovals'[r2] = pendingApprovals[r2]
                   /\ r2 \in timers'
                   /\ r2 \notin DOMAIN outcome'
             /\ \A c \in Calls \ {CallOf(r)} :
                   /\ calls'[c] = calls[c]
                   /\ promise'[c] = promise[c]
                   /\ settlements'[c] = settlements[c]
                   /\ executions'[c] = executions[c]]_vars

\* The request created second was approved while the one created first
\* is still pending with its timer and its caller suspended.
C24_Witness ==
    /\ 2 \in DOMAIN outcome /\ outcome[2] = "approve"
    /\ promise[CallOf(2)] = "true"
    /\ 1 \in DOMAIN pendingApprovals \cap timers
    /\ promise[CallOf(1)] = "pending"

\* ---------------------------------------------------------------- C25
\* C25: an approve_always response for a pending request records the
\* always_approve rule under the request's sessionId and leaves the rules
\* of every other session as they were, whatever sessionId it carries.
C25_RuleUnderRequestSession ==
    [][\A r \in DOMAIN pendingApprovals, s \in Sessions :
          HandleApprovalResponse(r, "approve_always", s)
          => LET request == pendingApprovals[r]
             IN  /\ checkSessionRule(sessionApprovalRules', request.sessionId,
                                     request.toolId, request.args) = "always_approve"
                 /\ \A s2 \in Sessions \ {request.sessionId}, t \in Tools :
                       checkSessionRule(sessionApprovalRules', s2, t, EmptyArgs)
                         = checkSessionRule(sessionApprovalRules, s2, t, EmptyArgs)]_vars

\* ---------------------------------------------------------------- C26
\* C26: a response that carries another sessionId than the pending
\* request it names leaves that request pending, its timer running and
\* its caller suspended.
C26_ForeignResponseLeavesPending ==
    [][\A r \in DOMAIN pendingApprovals, d \in Decisions, s \in Sessions :
          (s # pendingApprovals[r].sessionId /\ HandleApprovalResponse(r, d, s))
          => /\ r \in DOMAIN pendingApprovals'
             /\ r \in timers'
             /\ promise'[CallOf(r)] = "pending"]_vars

\* ---------------------------------------------------------------- C27
\* C27: a call whose tool has a write record and whose session has no rule
\* for it is approved without a request only when the server name of its
\* tool id is the first-party server id.
C27_FirstPartyByServerName ==
    [][\A c \in Calls :
          ( /\ CheckApproval(c, "is_write_true")
            /\ ~HasRule(calls[c].sessionId, calls[c].toolId)
            /\ promise'[c] = "true" )
          => deconstructToolId(calls[c].toolId).serverName = ARCHESTRA_MCP_SERVER_ID
      ]_vars

\* ---------------------------------------------------------------- C28
\* C28: in every reachable state no request is pending for a session and
\* a tool that have a session rule.
C28_NoPendingUnderRule ==
    \A r \in DOMAIN pendingApprovals :
        checkSessionRule(sessionApprovalRules, pendingApprovals[r].sessionId,
                         pendingApprovals[r].toolId, pendingApprovals[r].args) = "null"

\* ---------------------------------------------------------------- C29
\* C29: in every reachable state every request the UI store shows as
\* pending is in the backend's pending registry.
C29_ShownIsPending ==
    DOMAIN uiPendingApprovals \subseteq DOMAIN pendingApprovals

\* ---------------------------------------------------------------- C30
\* C30: whenever approveRequest or declineRequest removes a request from
\* the UI store, a tool-approval-response for its requestId has been sent.
C30_RemovedMeansSent ==
    [][\A r \in DOMAIN uiPendingApprovals :
          ( /\ r \notin DOMAIN uiPendingApprovals'
            /\ \E remember \in BOOLEAN :
                  ApproveRequest(r, remember) \/ DeclineRequest(r, remember) )
          => \E message \in responses' : message.requestId = r]_vars

\* ---------------------------------------------------------------- C35
\* C35: clearSessionRules of a session removes that session's rules,
\* keeps every other session's rules and leaves the registry, the timers
\* and the callers as they were; clearPendingApprovals of a session
\* leaves the rule table as it was and keeps every other session's
\* requests, with their timers and their suspended callers.
C35_ClearsOnlyTheirSession ==
    [][\A s \in Sessions :
          /\ ClearSessionRules(s)
             => /\ s \notin DOMAIN sessionApprovalRules'
                /\ \A s2 \in Sessions \ {s} :
                      IF s2 \in DOMAIN sessionApprovalRules
                      THEN /\ s2 \in DOMAIN sessionApprovalRules'
                           /\ sessionApprovalRules'[s2] = sessionApprovalRules[s2]
                      ELSE s2 \notin DOMAIN sessionApprovalRules'
                /\ UNCHANGED <<pendingApprovals, timers, calls, promise,
                               settlements, executions>>
          /\ ClearPendingApprovals(s)
             => /\ UNCHANGED sessionApprovalRules
                /\ \A r \in DOMAIN pendingApprovals :
                      pendingApprovals[r].sessionId # s
                      => /\ r \in DOMAIN pendingApprovals'
                         /\ pendingApprovals'[r] = pendingApprovals[r]
                         /\ r \in timers'
                         /\ promise'[CallOf(r)] = "pending"
                         /\ calls'[CallOf(r)] = calls[CallOf(r)]
                /\ \A r \in DOMAIN pendingApprovals' :
                      r \in DOMAIN pendingApprovals]_vars

\* A rule was recorded by an approve_always and its session's rules were
\* cleared since, while a request is still pending with its timer and its
\* caller suspended.
C35_Witness ==
    \E r1 \in DOMAIN outcome, r2 \in DOMAIN pendingApprovals :
        /\ outcome[r1] = "approve_always"
        /\ DOMAIN sessionApprovalRules = {}
        /\ r2 \in timers
        /\ promise[CallOf(r2)] = "pending"

\* ---------------------------------------------------------------- C33
\* Two calls are of different sessions: their streams were started with
\* different sessionIds, or one of them without a sessionId.
DifferentSessions(c1, c2) ==
    /\ c1 # c2
    /\ \/ calls[c1].sessionId # calls[c2].sessionId
       \/ calls[c1].sessionId = streamSessionId("undefined")

\* What requestApproval's rule check gives the call under a rule table.
RuleFor(rules, c) ==
    checkSessionRule(rules, calls[c].sessionId, calls[c].toolId, calls[c].args)

\* C33: a rule recorded by the answer to a request (given with the
\* request's sessionId), and a clearing of a session's rules, change the
\* rule check of no call of a different session, also when the call's
\* stream was started without a sessionId.
C33_RulesIsolatedBetweenSessions ==
    [][/\ \A r \in DOMAIN pendingApprovals, d \in Decisions :
            HandleApprovalResponse(r, d, pendingApprovals[r].sessionId)
            => \A c \in Calls :
                  (calls[c].pc = "needsApproval" /\ DifferentSessions(CallOf(r), c))
                  => RuleFor(sessionApprovalRules', c) = RuleFor(sessionApprovalRules, c)
       /\ \A s \in Sessions :
            ClearSessionRules(s)
            => \A c \in Calls :
                  (calls[c].pc = "needsApproval" /\ calls[c].sessionId # s)
                  => RuleFor(sessionApprovalRules', c) = RuleFor(sessionApprovalRules, c)
      ]_vars

\* ---------------------------------------------------------------- C34
\* C34: a request that is registered for a tool the classification store
\* holds a record of carries isWrite = true.
C34_PendingWithRecordIsWrite ==
    [][\A c \in Calls, rec \in ToolRecords \ {"no_record"} :
          RegisterRequest(c, rec)
          => pendingApprovals'[calls[c].requestId].isWrite]_vars

\* ---------------------------------------------------------------- C36
\* C36: after every setAvailableTools and every fetchAvailableTools that
\* got the catalog the selected ids are among the available ids; all of
\* them are selected when the selection was never initialized and is
\* empty; otherwise the selection keeps exactly its ids that are still
\* available, so that an initialized empty selection stays empty.
C36_SelectionWithinCatalog ==
    [][\A toolIds \in Catalogs :
          (SetAvailableTools(toolIds) \/ FetchAvailableToolsResolves(Array(toolIds)))
          => /\ selectedToolIds' \subseteq availableTools'
             /\ availableTools' = toolIds
             /\ IF ~hasInitializedSelection /\ selectedToolIds = {}
                THEN selectedToolIds' = toolIds
                ELSE selectedToolIds' = selectedToolIds \cap toolIds
             /\ (hasInitializedSelection /\ selectedToolIds = {})
                  => selectedToolIds' = {}]_vars

\* After the first load the user deselected every tool, and the catalog,
\* updated since, has tools of which none is selected.
C36_Witness ==
    /\ hasInitializedSelection
    /\ fetchesInFlight = 0
    /\ ~loadingAvailableTools
    /\ availableTools = CatalogTools
    /\ selectedToolIds = {}

\* ---------------------------------------------------------------- C31
\* One of the three first-party tools is called.
ToolCalled ==
    \/ ListAvailableTools
    \/ \E toolIds \in SUBSET Tools : EnableTools(toolIds) \/ DisableTools(toolIds)

\* The handler of the call goes on with this chat: it asks the store for
\* the chat's selection and is suspended there.
GoesOnWith(chatId) ==
    \E call \in BagToSet(mcpCalls') :
        /\ mcpCalls' = mcpCalls (+) SetToBag({call})
        /\ call.chatId = chatId

\* C31: while a stream of a chat is in progress, a call of
\* list_available_tools, enable_tools or disable_tools (the stream's LLM
\* may be its caller) reads the selection of that chat, and what a handler
\* writes it writes to the selection of the chat it read, whatever other
\* streams are in progress.
C31_ToolsActOnTheirStreamsChat ==
    [][/\ \A stream \in StoredChatIds :
            (BagIn(stream, activeStreams) /\ ToolCalled) => GoesOnWith(stream)
       /\ \A call \in BagToSet(mcpCalls) :
            (\/ \E written \in BOOLEAN : ToolCallResumes(call, written)
             \/ StoreWrites(call)
             \/ \E updatedTools \in UpdatedTools(call) :
                   ToolCallWrites(call, updatedTools)
             \/ ToolCallThrows(call))
            => \A chatId \in StoredChatIds \ {call.chatId} :
                  chatSelectedTools'[chatId] = chatSelectedTools[chatId]]_vars

\* ---------------------------------------------------------------- C32
\* The texts that report an error.
ErrorTexts ==
    {NoActiveChat, "Error enabling tools", "Error disabling tools",
     CaughtText("enable_tools"), CaughtText("disable_tools")}

\* The ids the context's chat has enabled: all that exist when its
\* selection is null.
EnabledInContext ==
    IF chatSelectedTools[currentChatId].given
    THEN chatSelectedTools[currentChatId].ids
    ELSE DOMAIN sandboxedTools \cup DOMAIN archestraTools

\* The request cannot be carried out as a whole: there is no chat
\* context, or one of its ids does not exist or is in the state asked for.
Refused(toolIds, asksEnabled) ==
    \/ currentChatId = NoChat
    \/ \E toolId \in toolIds :
          \/ toolId \notin DOMAIN sandboxedTools \cup DOMAIN archestraTools
          \/ (toolId \in EnabledInContext) = asksEnabled

\* What a call of enable_tools or disable_tools is left with when the
\* store has answered it: refused, an error text and nothing to write;
\* otherwise every id it named to write.
Decided(toolIds, asksEnabled) ==
    IF currentChatId = NoChat
    THEN mcpReply'.text = NoActiveChat /\ mcpCalls' = mcpCalls
    ELSE \E call \in BagToSet(mcpCalls') :
            /\ mcpCalls' = mcpCalls (+) SetToBag({call})
            /\ IF Refused(toolIds, asksEnabled)
               THEN call.text \in ErrorTexts /\ call.ids = {}
               ELSE call.ids = toolIds

\* The step leaves every id of the call in the state the call asks for,
\* in the selection of the call's chat.
InRequestedState(call) ==
    /\ call.tool = "enable_tools"
         => \/ ~chatSelectedTools'[call.chatId].given
            \/ call.ids \subseteq chatSelectedTools'[call.chatId].ids
    /\ call.tool = "disable_tools"
         => /\ chatSelectedTools'[call.chatId].given
            /\ call.ids \cap chatSelectedTools'[call.chatId].ids = {}

\* C32: an enable_tools or disable_tools call that has no chat context,
\* or names an id that, when the store answers the call, does not exist
\* or is already in the requested state, returns an error text and
\* changes no chat's selection at any of its steps; the selection is
\* written only for a call of which every id is valid, and then by all
\* of them, whenever the store writes between the handler's call of it
\* and its answer; and a store call that throws returns an error text.
C32_AllOrNothing ==
    [][/\ \A toolIds \in SUBSET Tools :
            /\ EnableTools(toolIds)
                 => Decided(toolIds, TRUE) /\ chatSelectedTools' = chatSelectedTools
            /\ DisableTools(toolIds)
                 => Decided(toolIds, FALSE) /\ chatSelectedTools' = chatSelectedTools
       /\ \A call \in BagToSet(mcpCalls) :
            call.tool # "list_available_tools"
            => /\ \A written \in BOOLEAN :
                    ToolCallResumes(call, written)
                    => IF call.ids = {}
                       THEN /\ mcpReply'.text = call.text
                            /\ chatSelectedTools' = chatSelectedTools
                       ELSE /\ mcpReply' = mcpReply
                            /\ \E writing \in BagToSet(mcpCalls') :
                                  /\ writing.awaits # "getSelectedTools"
                                  /\ writing.ids = call.ids
                                  /\ writing.chatId = call.chatId
                            /\ IF written THEN InRequestedState(call)
                               ELSE chatSelectedTools' = chatSelectedTools
               /\ StoreWrites(call)
                    => /\ call.ids # {}
                       /\ call.text \notin ErrorTexts
                       /\ InRequestedState(call)
               /\ \A updatedTools \in UpdatedTools(call) :
                    ToolCallWrites(call, updatedTools)
                    => /\ call.ids # {}
                       /\ call.text \notin ErrorTexts
                       /\ updatedTools.given => mcpReply'.text = call.text
                       /\ IF call.written
                          THEN chatSelectedTools' = chatSelectedTools
                          ELSE InRequestedState(call)
               /\ ToolCallThrows(call)
                    => /\ mcpReply'.text \in ErrorTexts
                       /\ chatSelectedTools' = chatSelectedTools
      ]_vars

\* enable_tools has just refused a request for chat 1, which has one of
\* the two existing tools enabled and the other disabled.
C32_Witness ==
    /\ mcpReply.tool = "enable_tools"
    /\ mcpReply.text = "Error enabling tools"
    /\ mcpReply.chatId = 1
    /\ currentChatId = 1
    /\ DOMAIN sandboxedTools \cup DOMAIN archestraTools = {ArchestraTool, WriteFileTool}
    /\ chatSelectedTools[1] = Array({WriteFileTool})

====
